---- MODULE Spec2Model ----
(***************************************************************************)
(* A model of the shaper vector-drawing surface: the document (a list of   *)
(* shapes, each a chain of cubic Bezier segments), the hit tester, the     *)
(* edit engine (apply_drag), the selection state and the tool state        *)
(* machines that drive them.                                               *)
(*                                                                         *)
(* World coordinates are integers (the source uses f64); a point is a pair *)
(* <<x, y>>.  Vec indices are 0-based as in the source: At(v, i) is v[i].  *)
(* zoom is a positive rational <<numerator, denominator>>; pan_offset and  *)
(* screen positions are pairs of rationals.                                *)
(***************************************************************************)
EXTENDS Integers, Sequences, FiniteSets, TLC

VARIABLES
    shapes,            \* Shaper.shapes: Vec<Shape>
    zoom,              \* Shaper.zoom, a rational <<n, d>>
    selected_shapes,   \* Shaper.selected_shapes: HashSet<usize>
    selected_points,   \* Shaper.selected_points: HashSet<PointId>
    selected_tool,     \* Shaper.selected_tool: ToolKind
    selecting_tool,    \* the SelectionTool's fields
    pan_offset,        \* Shaper.pan_offset: a pair of rationals
    zoom_percent,      \* Shaper.zoom_percent, a rational
    panning_tool,      \* the PanningTool's fields
    curr_shape,        \* Shaper.curr_shape: the shape being drawn
    drawing_tool,      \* the DrawingTool's fields
    curvature_tool,    \* the CurvatureTool's fields
    editing_tool,      \* the EditingTool's fields
    direct_selecting_tool, \* the DirectSelectionTool's fields
    pointer_down,      \* the canvas Response: a drag gesture is in progress
    panicked,          \* the process aborted on an out-of-range index
    held_hit,          \* the HitTestResult a caller of apply_drag holds
    base,              \* history: shapes when held_hit was captured
    last,              \* history: the last operation and its inputs (in SpecSlots:
                       \* the position in update() and its locals)
    ndrags             \* history: number of edit calls (of view changes) so far

vars == <<shapes, zoom, selected_shapes, selected_points, selected_tool,
          selecting_tool, pan_offset, zoom_percent, panning_tool, curr_shape,
          drawing_tool, curvature_tool, editing_tool, direct_selecting_tool,
          pointer_down, panicked, held_hit, base, last, ndrags>>

\* the view transform, the Drawing tool, the Editing and Direct-Selection
\* tools and the Curvature tool
viewVars == <<pan_offset, zoom_percent, panning_tool>>
drawVars == <<curr_shape, drawing_tool>>
editToolVars == <<editing_tool, direct_selecting_tool>>
otherToolVars == <<viewVars, drawVars, curvature_tool, editToolVars>>

----------------------------------------------------------------------------
(* Bounds of the model *)

\* world coordinates stay in 0..MaxCoord
MaxCoord == 8
\* at most this many edit calls (apply_drag) in one behaviour
MaxDrags == 3

Coords == 0..MaxCoord
Points == Coords \X Coords
\* the deltas a drag is called with
Deltas == {<<1, 0>>, <<0, -1>>, <<-1, 1>>}
\* the pointer positions a hit test is called with
MousePts == {<<1, 1>>, <<3, 1>>, <<5, 1>>, <<5, 0>>, <<4, 4>>, <<4, 7>>, <<3, 4>>,
             <<2, 5>>, <<1, 7>>}

----------------------------------------------------------------------------
(* Vec helpers: 0-based indexing *)

At(v, i) == v[i + 1]
InRange(v, i) == i >= 0 /\ i < Len(v)
Indices(v) == 0..(Len(v) - 1)

Min(S) == CHOOSE m \in S : \A n \in S : m <= n
Max(S) == CHOOSE m \in S : \A n \in S : m >= n

\* f32 / f64 values that are not whole numbers: rationals <<n, d>> in lowest
\* terms with d > 0
Abs(i) == IF i < 0 THEN -i ELSE i
RECURSIVE Gcd(_, _)
Gcd(a, b) == IF b = 0 THEN a ELSE Gcd(b, a % b)
Rat(n, d) ==
    LET g == Gcd(Abs(n), Abs(d))
        sgn == IF d < 0 THEN -1 ELSE 1
    IN  <<(sgn * n) \div g, (sgn * d) \div g>>
RAdd(a, b) == Rat(a[1] * b[2] + b[1] * a[2], a[2] * b[2])
RSub(a, b) == Rat(a[1] * b[2] - b[1] * a[2], a[2] * b[2])
RMul(a, b) == Rat(a[1] * b[1], a[2] * b[2])
RDiv(a, b) == Rat(a[1] * b[2], a[2] * b[1])
RLeq(a, b) == a[1] * b[2] <= b[1] * a[2]
\* f32::clamp
RClamp(a, lo, hi) == IF RLeq(a, lo) THEN lo ELSE IF RLeq(hi, a) THEN hi ELSE a
\* egui::Pos2 and Vec2 with rational components
RVec(x, y) == <<Rat(x, 1), Rat(y, 1)>>

\* Option<T>
Some(v) == <<v>>
NoneOpt == <<>>

KPoint(x, y) == <<x, y>>
CubicBez(p0, p1, p2, p3) == [p0 |-> p0, p1 |-> p1, p2 |-> p2, p3 |-> p3]

\* the control point ctrl_idx (0..3) of a segment
Handle(bez, ctrl_idx) ==
    CASE ctrl_idx = 0 -> bez.p0
      [] ctrl_idx = 1 -> bez.p1
      [] ctrl_idx = 2 -> bez.p2
      [] ctrl_idx = 3 -> bez.p3

----------------------------------------------------------------------------
(* HitTestResult *)

ControlPoint(shape_idx, bez_idx, ctrl_idx, orig_pos) ==
    [kind |-> "ControlPoint", shape_idx |-> shape_idx, bez_idx |-> bez_idx,
     ctrl_idx |-> ctrl_idx, orig_pos |-> orig_pos]

CurveSegment(shape_idx, bez_idx, bez) ==
    [kind |-> "CurveSegment", shape_idx |-> shape_idx, bez_idx |-> bez_idx,
     orig_p0 |-> bez.p0, orig_p1 |-> bez.p1, orig_p2 |-> bez.p2, orig_p3 |-> bez.p3]

ShapeBody(shape_idx, orig_beziers) ==
    [kind |-> "ShapeBody", shape_idx |-> shape_idx, orig_beziers |-> orig_beziers]

NoHit == [kind |-> "None"]

----------------------------------------------------------------------------
(* Settings of Shaper::default *)

handle_radius == 2
min_zoom == <<1, 10>>
max_zoom == <<16, 1>>
default_zoom == <<1, 1>>

----------------------------------------------------------------------------
(* The view transform.  Screen and world positions are pairs of rationals. *)

\* screen_to_world with the operations in another order
screen_to_world_PanAfterZoom(pan, z, p) ==
    <<RSub(RDiv(p[1], z), pan[1]), RSub(RDiv(p[2], z), pan[2])>>

world_to_screen(pan, z, p) ==
    <<RAdd(RMul(p[1], z), pan[1]), RAdd(RMul(p[2], z), pan[2])>>

screen_to_world(pan, z, p) ==
    <<RDiv(RSub(p[1], pan[1]), z), RDiv(RSub(p[2], pan[2]), z)>>

\* calc_zoom_level: the value it stores in zoom_percent
calc_zoom_level(z) ==
    RMul(RDiv(RSub(z, min_zoom), RSub(max_zoom, min_zoom)), <<100, 1>>)

\* the scroll block without the clamp
ScrollZoom_NoClamp(pan, z, pointer_pos, zoom_delta) ==
    LET new_zoom == RMul(z, zoom_delta)
        old_world_pos == screen_to_world(pan, z, pointer_pos)
        new_world_pos == screen_to_world(pan, new_zoom, pointer_pos)
    IN  [zoom |-> new_zoom,
         pan_offset |-> <<RAdd(pan[1], RMul(RSub(new_world_pos[1], old_world_pos[1]), new_zoom)),
                          RAdd(pan[2], RMul(RSub(new_world_pos[2], old_world_pos[2]), new_zoom))>>,
         zoom_percent |-> calc_zoom_level(new_zoom)]

\* the scroll block leaving pan_offset alone
ScrollZoom_KeepsPan(pan, z, pointer_pos, zoom_delta) ==
    LET new_zoom == RClamp(RMul(z, zoom_delta), min_zoom, max_zoom)
    IN  [zoom |-> new_zoom, pan_offset |-> pan,
         zoom_percent |-> calc_zoom_level(new_zoom)]

\* the scroll block of a tool's handle_input for a nonzero scroll_delta;
\* zoom_delta is exp(scroll_delta * 0.009)
ScrollZoom(pan, z, pointer_pos, zoom_delta) ==
    LET old_world_pos == screen_to_world(pan, z, pointer_pos)
        new_zoom == RClamp(RMul(z, zoom_delta), min_zoom, max_zoom)
        new_world_pos == screen_to_world(pan, new_zoom, pointer_pos)
        world_delta == <<RSub(new_world_pos[1], old_world_pos[1]),
                         RSub(new_world_pos[2], old_world_pos[2])>>
    IN  [zoom |-> new_zoom,
         pan_offset |-> <<RAdd(pan[1], RMul(world_delta[1], new_zoom)),
                          RAdd(pan[2], RMul(world_delta[2], new_zoom))>>,
         zoom_percent |-> calc_zoom_level(new_zoom)]

----------------------------------------------------------------------------
(* kurbo's ParamCurveNearest::nearest for a cubic, to the accuracy of a   *)
(* fixed subdivision: the squared distance from the query point to the     *)
(* nearest of the curve's points at t = k / NearestSamples.  Distances are *)
(* kept exact by scaling: BezAt is NearestSamples^3 times the curve point, *)
(* nearest_distance_sq is NearestSamples^6 times the squared distance.     *)

NearestSamples == 8
NearestScale == NearestSamples * NearestSamples * NearestSamples

BezAt(bez, k) ==
    LET u == NearestSamples - k
        c0 == u * u * u
        c1 == 3 * u * u * k
        c2 == 3 * u * k * k
        c3 == k * k * k
    IN  <<c0 * bez.p0[1] + c1 * bez.p1[1] + c2 * bez.p2[1] + c3 * bez.p3[1],
          c0 * bez.p0[2] + c1 * bez.p1[2] + c2 * bez.p2[2] + c3 * bez.p3[2]>>

DistSq(p, q) == (p[1] - q[1]) * (p[1] - q[1]) + (p[2] - q[2]) * (p[2] - q[2])

nearest_distance_sq(bez, mouse) ==
    LET m == <<NearestScale * mouse[1], NearestScale * mouse[2]>>
    IN  Min({DistSq(m, BezAt(bez, k)) : k \in 0..NearestSamples})

----------------------------------------------------------------------------
(* Shape::bounding_box: the axis-aligned rectangle enclosing all control   *)
(* points of all segments, or none when the shape has no segments.         *)

ControlPointsOf(shape) ==
    UNION {{At(shape.beziers, b).p0, At(shape.beziers, b).p1,
            At(shape.beziers, b).p2, At(shape.beziers, b).p3} :
           b \in Indices(shape.beziers)}

bounding_box(shape) ==
    IF Len(shape.beziers) = 0 THEN NoneOpt
    ELSE LET pts == ControlPointsOf(shape)
         IN  Some([x0 |-> Min({p[1] : p \in pts}), y0 |-> Min({p[2] : p \in pts}),
                   x1 |-> Max({p[1] : p \in pts}), y1 |-> Max({p[2] : p \in pts})])

\* kurbo::Rect::contains: the rectangle is half-open
RectContains(r, p) == p[1] >= r.x0 /\ p[1] < r.x1 /\ p[2] >= r.y0 /\ p[2] < r.y1

----------------------------------------------------------------------------
(* Shaper::hit_test_all *)

\* nearest.distance_sq <= tol_curve_sq, where
\* tol_curve = base_tolerance / zoom + thickness * 0.5 with base_tolerance 2.0,
\* that is (4 d + thickness n) / (2 n) for zoom = n / d
CurveWithinTol(bez, mouse, thickness, z) ==
    LET num == 4 * z[2] + thickness * z[1]
    IN  nearest_distance_sq(bez, mouse)
          <= (((NearestScale * NearestScale) \div 4) * num * num) \div (z[1] * z[1])

\* a control-point test with the radius divided by the zoom
PointWithinTol_ScaledByZoom(pt, mouse) ==
    DistSq(mouse, pt) * zoom[1] * zoom[1]
      <= handle_radius * handle_radius * zoom[2] * zoom[2]

\* dx * dx + dy * dy <= tol_point_sq, with tol_point = handle_radius
PointWithinTol(pt, mouse) == DistSq(mouse, pt) <= handle_radius * handle_radius

\* the inner loop over the four handles of one segment, from ctrl_idx on
RECURSIVE ScanHandles(_, _, _, _, _)
ScanHandles(shape_idx, bez_idx, bez, mouse, ctrl_idx) ==
    IF ctrl_idx > 3 THEN NoHit
    ELSE IF PointWithinTol(Handle(bez, ctrl_idx), mouse)
         THEN ControlPoint(shape_idx, bez_idx, ctrl_idx, Handle(bez, ctrl_idx))
         ELSE ScanHandles(shape_idx, bez_idx, bez, mouse, ctrl_idx + 1)

\* the body of the loop over segments: 1) the curve itself, 2) the handles
ScanSegment(shape_idx, bez_idx, bez, mouse, thickness, z) ==
    IF CurveWithinTol(bez, mouse, thickness, z)
    THEN CurveSegment(shape_idx, bez_idx, bez)
    ELSE ScanHandles(shape_idx, bez_idx, bez, mouse, 0)

\* the loop over the segments of one shape, in ascending order from bez_idx
RECURSIVE ScanBeziers(_, _, _, _, _)
ScanBeziers(shape_idx, shape, mouse, z, bez_idx) ==
    IF bez_idx >= Len(shape.beziers) THEN NoHit
    ELSE LET r == ScanSegment(shape_idx, bez_idx, At(shape.beziers, bez_idx),
                              mouse, shape.thickness, z)
         IN  IF r # NoHit THEN r
             ELSE ScanBeziers(shape_idx, shape, mouse, z, bez_idx + 1)

\* the first loop over shapes, in reverse order from shape_idx down
RECURSIVE ScanShapes_BottomUp(_, _, _, _)
ScanShapes_BottomUp(shps, mouse, z, shape_idx) ==
    IF shape_idx < 0 THEN NoHit
    ELSE LET idx == Len(shps) - 1 - shape_idx
             r == ScanBeziers(idx, At(shps, idx), mouse, z, 0)
         IN  IF r # NoHit THEN r
             ELSE ScanShapes_BottomUp(shps, mouse, z, shape_idx - 1)

RECURSIVE ScanShapes(_, _, _, _)
ScanShapes(shps, mouse, z, shape_idx) ==
    IF shape_idx < 0 THEN NoHit
    ELSE LET r == ScanBeziers(shape_idx, At(shps, shape_idx), mouse, z, 0)
         IN  IF r # NoHit THEN r
             ELSE ScanShapes(shps, mouse, z, shape_idx - 1)

\* the second loop over shapes: bounding boxes, in reverse order
RECURSIVE ScanBodies(_, _, _)
ScanBodies(shps, mouse, shape_idx) ==
    IF shape_idx < 0 THEN NoHit
    ELSE LET bounds == bounding_box(At(shps, shape_idx))
         IN  IF bounds # NoneOpt /\ RectContains(bounds[1], mouse)
             THEN ShapeBody(shape_idx, At(shps, shape_idx).beziers)
             ELSE ScanBodies(shps, mouse, shape_idx - 1)

hit_test_all_BodiesFirst(shps, z, mouse) ==
    LET r == ScanBodies(shps, mouse, Len(shps) - 1)
    IN  IF r # NoHit THEN r ELSE ScanShapes(shps, mouse, z, Len(shps) - 1)

hit_test_all(shps, z, mouse) ==
    LET r == ScanShapes(shps, mouse, z, Len(shps) - 1)
    IN  IF r # NoHit THEN r ELSE ScanBodies(shps, mouse, Len(shps) - 1)

----------------------------------------------------------------------------
(* Shaper::apply_drag *)

Translate(p, dx, dy) == KPoint(p[1] + dx, p[2] + dy)

\* a store that writes the segments to every shape of the document
SetBeziers_EveryShape(shps, shape_idx, beziers) ==
    [i \in 1..Len(shps) |-> [shps[i] EXCEPT !.beziers = beziers]]

SetBeziers(shps, shape_idx, beziers) ==
    [shps EXCEPT ![shape_idx + 1] = [@ EXCEPT !.beziers = beziers]]

\* ctrl_idx 0: move p0 to new_pt, p1 along with it, and the previous
\* segment's p3 and p2 if there is one
DragStartAnchor_KeepsPrevHandle(beziers, bez_idx, new_pt) ==
    LET bez == At(beziers, bez_idx)
        dx == new_pt[1] - bez.p0[1]
        dy == new_pt[2] - bez.p0[2]
        moved == [beziers EXCEPT ![bez_idx + 1] =
                     [@ EXCEPT !.p0 = new_pt, !.p1 = Translate(bez.p1, dx, dy)]]
    IN  IF bez_idx > 0
        THEN [moved EXCEPT ![bez_idx] = [@ EXCEPT !.p3 = new_pt]]
        ELSE moved

DragStartAnchor(beziers, bez_idx, new_pt) ==
    LET bez == At(beziers, bez_idx)
        dx == new_pt[1] - bez.p0[1]
        dy == new_pt[2] - bez.p0[2]
        moved == [beziers EXCEPT ![bez_idx + 1] =
                     [@ EXCEPT !.p0 = new_pt, !.p1 = Translate(bez.p1, dx, dy)]]
    IN  IF bez_idx > 0
        THEN [moved EXCEPT ![bez_idx] =
                 [@ EXCEPT !.p3 = new_pt, !.p2 = Translate(@, dx, dy)]]
        ELSE moved

\* ctrl_idx 1 or 2: move that handle alone
DragHandle_BothHandles(beziers, bez_idx, ctrl_idx, new_pt) ==
    [beziers EXCEPT ![bez_idx + 1] = [@ EXCEPT !.p1 = new_pt, !.p2 = new_pt]]

DragHandle(beziers, bez_idx, ctrl_idx, new_pt) ==
    IF ctrl_idx = 1
    THEN [beziers EXCEPT ![bez_idx + 1] = [@ EXCEPT !.p1 = new_pt]]
    ELSE [beziers EXCEPT ![bez_idx + 1] = [@ EXCEPT !.p2 = new_pt]]

\* ctrl_idx 3: move p3 to new_pt, p2 along with it, and the next segment's
\* p0 and p1 if there is one
DragEndAnchor(beziers, bez_idx, new_pt) ==
    LET bez == At(beziers, bez_idx)
        dx == new_pt[1] - bez.p3[1]
        dy == new_pt[2] - bez.p3[2]
        moved == [beziers EXCEPT ![bez_idx + 1] =
                     [@ EXCEPT !.p3 = new_pt, !.p2 = Translate(bez.p2, dx, dy)]]
    IN  IF bez_idx + 1 < Len(beziers)
        THEN [moved EXCEPT ![bez_idx + 2] =
                 [@ EXCEPT !.p0 = new_pt, !.p1 = Translate(@, dx, dy)]]
        ELSE moved

\* the ControlPoint arm, for a shape and a segment that exist
DragControlPoint_FromCurrent(beziers, bez_idx, ctrl_idx, orig_pos, delta) ==
    LET cur == Handle(At(beziers, bez_idx), ctrl_idx)
        new_pt == KPoint(cur[1] + delta[1], cur[2] + delta[2])
    IN  CASE ctrl_idx = 0 -> DragStartAnchor(beziers, bez_idx, new_pt)
          [] ctrl_idx \in {1, 2} -> DragHandle(beziers, bez_idx, ctrl_idx, new_pt)
          [] ctrl_idx = 3 -> DragEndAnchor(beziers, bez_idx, new_pt)
          [] OTHER -> beziers

DragControlPoint(beziers, bez_idx, ctrl_idx, orig_pos, delta) ==
    LET new_pt == KPoint(orig_pos[1] + delta[1], orig_pos[2] + delta[2])
    IN  CASE ctrl_idx = 0 -> DragStartAnchor(beziers, bez_idx, new_pt)
          [] ctrl_idx \in {1, 2} -> DragHandle(beziers, bez_idx, ctrl_idx, new_pt)
          [] ctrl_idx = 3 -> DragEndAnchor(beziers, bez_idx, new_pt)
          [] OTHER -> beziers

\* the CurveSegment arm, for a shape and a segment that exist
DragCurveSegment_LeavesJoints(beziers, bez_idx, hit, delta) ==
    [beziers EXCEPT ![bez_idx + 1] =
        CubicBez(KPoint(hit.orig_p0[1] + delta[1], hit.orig_p0[2] + delta[2]),
                 KPoint(hit.orig_p1[1] + delta[1], hit.orig_p1[2] + delta[2]),
                 KPoint(hit.orig_p2[1] + delta[1], hit.orig_p2[2] + delta[2]),
                 KPoint(hit.orig_p3[1] + delta[1], hit.orig_p3[2] + delta[2]))]

DragCurveSegment_MovesNeighbourHandles(beziers, bez_idx, hit, delta) ==
    LET new_p0 == KPoint(hit.orig_p0[1] + delta[1], hit.orig_p0[2] + delta[2])
        new_p1 == KPoint(hit.orig_p1[1] + delta[1], hit.orig_p1[2] + delta[2])
        new_p2 == KPoint(hit.orig_p2[1] + delta[1], hit.orig_p2[2] + delta[2])
        new_p3 == KPoint(hit.orig_p3[1] + delta[1], hit.orig_p3[2] + delta[2])
        moved == [beziers EXCEPT ![bez_idx + 1] = CubicBez(new_p0, new_p1, new_p2, new_p3)]
        withPrev == IF bez_idx > 0
                    THEN [moved EXCEPT ![bez_idx] =
                             [@ EXCEPT !.p3 = new_p0,
                                       !.p2 = Translate(@, delta[1], delta[2])]]
                    ELSE moved
    IN  IF bez_idx + 1 < Len(beziers)
        THEN [withPrev EXCEPT ![bez_idx + 2] =
                 [@ EXCEPT !.p0 = new_p3, !.p1 = Translate(@, delta[1], delta[2])]]
        ELSE withPrev

DragCurveSegment(beziers, bez_idx, hit, delta) ==
    LET new_p0 == KPoint(hit.orig_p0[1] + delta[1], hit.orig_p0[2] + delta[2])
        new_p1 == KPoint(hit.orig_p1[1] + delta[1], hit.orig_p1[2] + delta[2])
        new_p2 == KPoint(hit.orig_p2[1] + delta[1], hit.orig_p2[2] + delta[2])
        new_p3 == KPoint(hit.orig_p3[1] + delta[1], hit.orig_p3[2] + delta[2])
        moved == [beziers EXCEPT ![bez_idx + 1] = CubicBez(new_p0, new_p1, new_p2, new_p3)]
        withPrev == IF bez_idx > 0
                    THEN [moved EXCEPT ![bez_idx] = [@ EXCEPT !.p3 = new_p0]]
                    ELSE moved
    IN  IF bez_idx + 1 < Len(beziers)
        THEN [withPrev EXCEPT ![bez_idx + 2] = [@ EXCEPT !.p0 = new_p3]]
        ELSE withPrev

\* the ShapeBody arm adding delta to the segments as they are now
DragShapeBody_Accumulates(beziers, orig_beziers, delta) ==
    [i \in 1..Len(beziers) |->
        CubicBez(Translate(beziers[i].p0, delta[1], delta[2]),
                 Translate(beziers[i].p1, delta[1], delta[2]),
                 Translate(beziers[i].p2, delta[1], delta[2]),
                 Translate(beziers[i].p3, delta[1], delta[2]))]

\* the ShapeBody arm: beziers.iter_mut().zip(orig_beziers.iter())
DragShapeBody(beziers, orig_beziers, delta) ==
    [i \in 1..Len(beziers) |->
        IF i <= Len(orig_beziers)
        THEN CubicBez(Translate(orig_beziers[i].p0, delta[1], delta[2]),
                      Translate(orig_beziers[i].p1, delta[1], delta[2]),
                      Translate(orig_beziers[i].p2, delta[1], delta[2]),
                      Translate(orig_beziers[i].p3, delta[1], delta[2]))
        ELSE beziers[i]]

\* shape.beziers[*bez_idx] in the CurveSegment arm is an unchecked index
apply_drag_panics(shps, hit) ==
    /\ hit.kind = "CurveSegment"
    /\ InRange(shps, hit.shape_idx)
    /\ ~InRange(At(shps, hit.shape_idx).beziers, hit.bez_idx)

\* the document after apply_drag(hit, delta), when it does not panic
apply_drag(shps, hit, delta) ==
    CASE hit.kind = "ControlPoint" ->
           IF /\ InRange(shps, hit.shape_idx)
              /\ InRange(At(shps, hit.shape_idx).beziers, hit.bez_idx)
           THEN SetBeziers(shps, hit.shape_idx,
                    DragControlPoint(At(shps, hit.shape_idx).beziers, hit.bez_idx,
                                     hit.ctrl_idx, hit.orig_pos, delta))
           ELSE shps
      [] hit.kind = "CurveSegment" ->
           IF InRange(shps, hit.shape_idx)
           THEN SetBeziers(shps, hit.shape_idx,
                    DragCurveSegment(At(shps, hit.shape_idx).beziers, hit.bez_idx,
                                     hit, delta))
           ELSE shps
      [] hit.kind = "ShapeBody" ->
           IF InRange(shps, hit.shape_idx)
           THEN SetBeziers(shps, hit.shape_idx,
                    DragShapeBody(At(shps, hit.shape_idx).beziers, hit.orig_beziers, delta))
           ELSE shps
      [] OTHER -> shps

----------------------------------------------------------------------------
(* Selection state *)

PointId(shape_idx, bezier_idx, ctrl_idx) ==
    [shape_idx |-> shape_idx, bezier_idx |-> bezier_idx, ctrl_idx |-> ctrl_idx]

\* egui::Rect::from_two_pos and from_min_max
RectFromTwoPos(a, b) ==
    [x0 |-> Min({a[1], b[1]}), y0 |-> Min({a[2], b[2]}),
     x1 |-> Max({a[1], b[1]}), y1 |-> Max({a[2], b[2]})]

\* egui::Rect::intersects and egui::Rect::contains: the rectangle is closed
RectIntersects(r, o) ==
    r.x0 <= o.x1 /\ o.x0 <= r.x1 /\ r.y0 <= o.y1 /\ o.y0 <= r.y1
EguiRectContains(r, p) ==
    r.x0 <= p[1] /\ p[1] <= r.x1 /\ r.y0 <= p[2] /\ p[2] <= r.y1

\* HashSet::clear
Clear(set) == {}

\* the indices select_shapes_in_rect inserts in its loop
ShapesInRect(shps, rect) ==
    {idx \in Indices(shps) :
        /\ bounding_box(At(shps, idx)) # NoneOpt
        /\ RectIntersects(rect, bounding_box(At(shps, idx))[1])}

\* selected_shapes after select_shapes_in_rect: clear, insert, then the
\* trailing self.selected_shapes.clear()
select_shapes_in_rect(shps, rect) == Clear(ShapesInRect(shps, rect))

\* select_points_in_rect testing the points against a half-open rectangle
select_points_in_rect_HalfOpen(shps, rect) ==
    {pid \in {PointId(t[1], t[2], c) :
                 t \in UNION {{<<s, b>> : b \in Indices(At(shps, s).beziers)} :
                              s \in Indices(shps)},
                 c \in 0..3} :
        RectContains(rect, Handle(At(At(shps, pid.shape_idx).beziers, pid.bezier_idx),
                                  pid.ctrl_idx))}

\* selected_points after select_points_in_rect (it also clears selected_shapes)
select_points_in_rect(shps, rect) ==
    UNION {UNION {{PointId(s, b, c) :
                      c \in {c \in 0..3 :
                               EguiRectContains(rect,
                                   Handle(At(At(shps, s).beziers, b), c))}} :
                  b \in Indices(At(shps, s).beziers)} :
           s \in Indices(shps)}

----------------------------------------------------------------------------
(* Documents.  A drawn shape is a chain of fitted segments whose joints    *)
(* coincide; thickness is the stroke width chosen when it was drawn.       *)

\* Shape::new
ShapeNew(thickness) ==
    [thickness |-> thickness, beziers |-> <<>>, raw_strokes |-> <<>>,
     current_stroke |-> <<>>]

\* DrawingTool::new: bezier_tolerance
bezier_tolerance == 10

\* how many further samples one fitted segment spans: a larger tolerance
\* lets a segment run over more samples
FitSpan(tol) == IF tol < 4 THEN 1 ELSE IF tol < 30 THEN 3 ELSE 6

\* simplify (the simplify_rs crate): a pure function of the raw points and
\* the tolerance that answers a chain of segments with shared joints from
\* the first to the last point; here one segment per FitSpan(tol) further
\* samples, the samples in between serving as handles.  The points it
\* answers are samples, which the casts to f32 and back leave as they are.
RECURSIVE FitFrom(_, _, _)
FitFrom(raw, i, tol) ==
    LET n == Len(raw)
        j == IF i + FitSpan(tol) < n THEN i + FitSpan(tol) ELSE n
        seg == CubicBez(raw[i], IF j - i >= 2 THEN raw[i + 1] ELSE raw[i],
                        IF j - i >= 2 THEN raw[j - 1] ELSE raw[j], raw[j])
    IN  IF j = n THEN <<seg>> ELSE <<seg>> \o FitFrom(raw, j, tol)
simplify(raw, tol) == FitFrom(raw, 1, tol)

\* Shape::fit_curve_and_store
fit_curve_and_store(shape, raw, bzr_tol) ==
    IF Len(raw) < 2 THEN shape
    ELSE [shape EXCEPT !.beziers = @ \o simplify(raw, bzr_tol)]

\* Shape::refit_all_strokes, the loop over the cloned raw strokes from i on
RECURSIVE RefitStrokes(_, _, _, _)
RefitStrokes(shape, raw_strokes, bzr_tol, i) ==
    IF i > Len(raw_strokes) THEN shape
    ELSE RefitStrokes(fit_curve_and_store(shape, raw_strokes[i], bzr_tol),
                      raw_strokes, bzr_tol, i + 1)

\* a refit that appends to the segments the shape already has
refit_all_strokes_KeepsOld(shape, bzr_tol) ==
    RefitStrokes(shape, shape.raw_strokes, bzr_tol, 1)

\* Shape::refit_all_strokes
refit_all_strokes(shape, bzr_tol) ==
    RefitStrokes([shape EXCEPT !.beziers = <<>>], shape.raw_strokes, bzr_tol, 1)

\* the shape the Drawing tool archives for a finished stroke: the raw stroke
\* is stored, fitted, and the shape cloned with current_stroke still filled
ArchivedAt(shape, bzr_tol) ==
    fit_curve_and_store([shape EXCEPT !.raw_strokes = Append(@, shape.current_stroke)],
                        shape.current_stroke, bzr_tol)
\* the same with the tolerance the tool starts with
Archived(shape) == ArchivedAt(shape, bezier_tolerance)
Drawn(thickness, stroke) ==
    Archived([ShapeNew(thickness) EXCEPT !.current_stroke = stroke])

\* a wide arch, drawn first
Arch == Drawn(2, <<<<1, 1>>, <<1, 7>>, <<7, 7>>, <<7, 1>>>>)

\* a thin chain of three segments, drawn on top of it
Chain == Drawn(1, <<<<1, 1>>, <<1, 2>>, <<3, 2>>, <<3, 1>>, <<3, 0>>, <<5, 0>>,
                    <<5, 1>>, <<5, 2>>, <<7, 2>>, <<7, 1>>>>)

InitDocs == {<<Arch, Chain>>}
InitZooms == {<<1, 1>>, <<16, 1>>}

InGrid(shps) ==
    \A s \in Indices(shps) : ControlPointsOf(At(shps, s)) \subseteq Points

\* SelectionTool::new
SelectionToolNew ==
    [active_hit |-> NoHit, drag_start_world |-> NoneOpt, drag_start_screen |-> NoneOpt,
     is_marquee |-> FALSE, is_moving_shape |-> FALSE, is_dragging |-> FALSE]

\* PanningTool::new
PanningToolNew ==
    [drag_start |-> NoneOpt, orig_pan |-> RVec(0, 0), is_panning |-> FALSE]

\* DrawingTool::new (the thickness is the slider's, 1..100)
DrawingToolNew(thickness) ==
    [thickness |-> thickness, is_drawing |-> FALSE,
     bezier_tolerance |-> bezier_tolerance]

\* CurvatureTool::new
CurvatureToolNew == [active_hit |-> NoHit, drag_start_world |-> NoneOpt]

\* ActiveDrag::None
NoDrag == [kind |-> "None"]

\* EditingTool::new
EditingToolNew ==
    [drag_start |-> NoneOpt, active_drag |-> NoDrag, move_mode |-> "MovePoint"]

\* DirectSelectionTool::new
DirectSelectionToolNew ==
    [active_hit |-> NoHit, drag_start_world |-> NoneOpt, is_marquee |-> FALSE,
     dragged_point_origins |-> <<>>]

NoInput == [op |-> "init", mouse |-> <<0, 0>>, delta |-> <<0, 0>>]

\* the application with a document already drawn and nothing selected
InitWith(docs, zooms) ==
    /\ shapes \in docs
    /\ zoom \in zooms
    /\ selected_shapes = {}
    /\ selected_points = {}
    /\ selected_tool = "Drawing"
    /\ selecting_tool = SelectionToolNew
    /\ pan_offset = RVec(0, 0)
    /\ zoom_percent = calc_zoom_level(zoom)
    /\ panning_tool = PanningToolNew
    /\ drawing_tool = DrawingToolNew(1)
    /\ curr_shape = ShapeNew(drawing_tool.thickness)
    /\ curvature_tool = CurvatureToolNew
    /\ editing_tool = EditingToolNew
    /\ direct_selecting_tool = DirectSelectionToolNew
    /\ pointer_down = FALSE
    /\ panicked = FALSE
    /\ held_hit = NoHit
    /\ base = shapes
    /\ last = NoInput
    /\ ndrags = 0

----------------------------------------------------------------------------
(* The edit engine driven directly: a caller takes a hit from hit_test_all *)
(* (or names a control point itself) and calls apply_drag with it.         *)

toolVars == <<selected_shapes, selected_points, selected_tool, selecting_tool,
              pointer_down, otherToolVars>>

\* a hit is taken while an edit can still follow it
HitTest(mouse) ==
    /\ ~panicked
    /\ ndrags < MaxDrags
    /\ held_hit' = hit_test_all(shapes, zoom, mouse)
    /\ base' = shapes
    /\ last' = [op |-> "hit_test_all", mouse |-> mouse, delta |-> <<0, 0>>]
    /\ UNCHANGED <<shapes, zoom, panicked, ndrags, toolVars>>

\* HitTestResult::ControlPoint built for a control point of the document
HoldControlPoint(shape_idx, bez_idx, ctrl_idx) ==
    /\ ~panicked
    /\ ndrags < MaxDrags
    /\ InRange(shapes, shape_idx)
    /\ InRange(At(shapes, shape_idx).beziers, bez_idx)
    /\ held_hit' = ControlPoint(shape_idx, bez_idx, ctrl_idx,
                                Handle(At(At(shapes, shape_idx).beziers, bez_idx), ctrl_idx))
    /\ base' = shapes
    /\ last' = [op |-> "hold", mouse |-> <<0, 0>>, delta |-> <<0, 0>>]
    /\ UNCHANGED <<shapes, zoom, panicked, ndrags, toolVars>>

\* HitTestResult::ShapeBody built for a shape of the document, with a
\* snapshot of its segments (as SelectionTool does when a drag starts)
HoldShapeBody(shape_idx) ==
    /\ ~panicked
    /\ ndrags < MaxDrags
    /\ InRange(shapes, shape_idx)
    /\ held_hit' = ShapeBody(shape_idx, At(shapes, shape_idx).beziers)
    /\ base' = shapes
    /\ last' = [op |-> "hold", mouse |-> <<0, 0>>, delta |-> <<0, 0>>]
    /\ UNCHANGED <<shapes, zoom, panicked, ndrags, toolVars>>

ApplyDrag(delta) ==
    /\ ~panicked
    /\ ndrags < MaxDrags
    /\ held_hit # NoHit
    /\ IF apply_drag_panics(shapes, held_hit)
       THEN panicked' = TRUE /\ UNCHANGED shapes
       ELSE /\ shapes' = apply_drag(shapes, held_hit, delta)
            /\ InGrid(shapes')
            /\ UNCHANGED panicked
    /\ last' = [op |-> "apply_drag", mouse |-> <<0, 0>>, delta |-> delta]
    /\ ndrags' = ndrags + 1
    /\ UNCHANGED <<zoom, held_hit, base, toolVars>>

InitEdit == InitWith(InitDocs, InitZooms)

NextEdit ==
    \/ \E mouse \in MousePts : HitTest(mouse)
    \/ \E b \in 0..2, c \in {0, 3} : HoldControlPoint(1, b, c)
    \/ HoldShapeBody(1)
    \/ \E delta \in Deltas : ApplyDrag(delta)

SpecEdit == InitEdit /\ [][NextEdit]_vars

----------------------------------------------------------------------------
(* The selection operations of Shaper, called directly on a drawn document *)

\* a stroke of a single sample is archived with no segments
Dot == Drawn(1, <<<<4, 4>>>>)

SelectDocs == {<<Arch, Chain>>, <<Chain, Dot, Arch>>}
\* the corners a marquee rectangle is spanned by
RectCorners == {<<0, 0>>, <<2, 3>>, <<4, 1>>, <<8, 8>>}
Rects == {RectFromTwoPos(a, b) : a, b \in RectCorners}

editVars == <<shapes, zoom, panicked, held_hit, base, ndrags, selected_tool,
              selecting_tool, pointer_down, otherToolVars>>

\* select_shapes_in_rect clearing the point selection as well
SelectShapesInRect_ClearsPoints(rect) ==
    /\ selected_shapes' = select_shapes_in_rect(shapes, rect)
    /\ selected_points' = Clear(selected_points)
    /\ last' = [op |-> "select_shapes_in_rect", rect |-> rect,
                prior_shapes |-> selected_shapes, prior_points |-> selected_points]
    /\ UNCHANGED editVars

SelectShapesInRect(rect) ==
    /\ selected_shapes' = select_shapes_in_rect(shapes, rect)
    /\ UNCHANGED selected_points
    /\ last' = [op |-> "select_shapes_in_rect", rect |-> rect,
                prior_shapes |-> selected_shapes, prior_points |-> selected_points]
    /\ UNCHANGED editVars

SelectPointsInRect(rect) ==
    /\ selected_points' = select_points_in_rect(shapes, rect)
    /\ selected_shapes' = Clear(selected_shapes)
    /\ last' = [op |-> "select_points_in_rect", rect |-> rect,
                prior_shapes |-> selected_shapes, prior_points |-> selected_points]
    /\ UNCHANGED editVars

\* select_single_shape without the clear of selected_points
SelectSingleShape_KeepsPoints(shape_idx) ==
    /\ selected_shapes' = {shape_idx}
    /\ UNCHANGED selected_points
    /\ last' = [op |-> "select_single_shape", idx |-> shape_idx,
                prior_shapes |-> selected_shapes, prior_points |-> selected_points]
    /\ UNCHANGED editVars

\* select_single_shape
SelectSingleShape(shape_idx) ==
    /\ selected_shapes' = {shape_idx}
    /\ selected_points' = Clear(selected_points)
    /\ last' = [op |-> "select_single_shape", idx |-> shape_idx,
                prior_shapes |-> selected_shapes, prior_points |-> selected_points]
    /\ UNCHANGED editVars

\* select_shape_clearing_points
SelectShapeClearingPoints(shape_idx) ==
    /\ selected_shapes' = {shape_idx}
    /\ selected_points' = Clear(selected_points)
    /\ last' = [op |-> "select_shape_clearing_points", idx |-> shape_idx,
                prior_shapes |-> selected_shapes, prior_points |-> selected_points]
    /\ UNCHANGED editVars

\* toggle_shape_selection
ToggleShapeSelection(shape_idx) ==
    /\ selected_shapes' = IF shape_idx \in selected_shapes
                          THEN selected_shapes \ {shape_idx}
                          ELSE selected_shapes \cup {shape_idx}
    /\ UNCHANGED selected_points
    /\ last' = [op |-> "toggle_shape_selection", idx |-> shape_idx,
                prior_shapes |-> selected_shapes, prior_points |-> selected_points]
    /\ UNCHANGED editVars

\* select_point_and_shape
SelectPointAndShape(pid) ==
    /\ selected_points' = {pid}
    /\ selected_shapes' = selected_shapes \cup {pid.shape_idx}
    /\ last' = [op |-> "select_point_and_shape", pid |-> pid,
                prior_shapes |-> selected_shapes, prior_points |-> selected_points]
    /\ UNCHANGED editVars

InitSelect == InitWith(SelectDocs, {<<1, 1>>})

NextSelect ==
    \/ \E rect \in Rects : SelectShapesInRect(rect)
    \/ \E rect \in Rects : SelectPointsInRect(rect)
    \/ \E idx \in Indices(shapes) : SelectSingleShape(idx)
    \/ \E idx \in Indices(shapes) : SelectShapeClearingPoints(idx)
    \/ \E idx \in Indices(shapes) : ToggleShapeSelection(idx)
    \/ \E idx \in Indices(shapes) :
          \E b \in Indices(At(shapes, idx).beziers), c \in {0, 3} :
              SelectPointAndShape(PointId(idx, b, c))

SpecSelect == InitSelect /\ [][NextSelect]_vars

----------------------------------------------------------------------------
(* The application driven frame by frame through its tools.  A frame hands  *)
(* the active tool the canvas response (one pointer event at most, with the *)
(* pointer named by the world point it maps to) and then paints the tool.   *)
(* Frames carry no scroll; the tool buttons are clicked with the pointer,   *)
(* hence never during a canvas drag.                                        *)

DRAG_THRESHOLD == 5

ToolKinds == {"Drawing", "Selection"}
\* where the pointer is in a frame
PointerPts == {<<1, 1>>, <<4, 4>>, <<4, 7>>, <<1, 7>>, <<7, 1>>}
PointerEvents == {"hover", "drag_started", "dragged", "drag_stopped"}

\* the part of the application a tool works on, together with the tool
Frame(shps, sel_shapes, sel_points, tool) ==
    [shapes |-> shps, selected_shapes |-> sel_shapes, selected_points |-> sel_points,
     tool |-> tool, applied |-> FALSE]

\* distance_moved > DRAG_THRESHOLD / zoom
PastThreshold(start, cur, z) ==
    DistSq(start, cur) * z[1] * z[1] > DRAG_THRESHOLD * DRAG_THRESHOLD * z[2] * z[2]

\* SelectionTool::handle_input, the drag_started block; hit is what
\* hit_test_all returned for world
SelectionDragStarted(f, hit, world, shift_held) ==
    IF shift_held
    THEN [f EXCEPT !.tool.active_hit = NoHit,
                   !.tool.is_marquee = TRUE,
                   !.tool.is_moving_shape = FALSE,
                   !.tool.drag_start_world = Some(world)]
    ELSE IF hit.kind = "CurveSegment"
    THEN [f EXCEPT !.tool.active_hit =
                        ShapeBody(hit.shape_idx, At(f.shapes, hit.shape_idx).beziers),
                   !.tool.is_marquee = FALSE,
                   !.tool.is_moving_shape = TRUE,
                   !.tool.drag_start_world = Some(world),
                   !.tool.drag_start_screen = Some(world),
                   !.selected_shapes = {hit.shape_idx},
                   !.selected_points = Clear(f.selected_points)]
    ELSE [f EXCEPT !.tool.active_hit = NoHit,
                   !.tool.is_marquee = FALSE,
                   !.tool.is_moving_shape = FALSE,
                   !.tool.drag_start_world = Some(world)]

\* SelectionTool::handle_input, the dragged block
SelectionDragged(f, z, world) ==
    IF f.tool.drag_start_world = NoneOpt THEN f
    ELSE LET start_world == f.tool.drag_start_world[1]
             delta == KPoint(world[1] - start_world[1], world[2] - start_world[2])
         IN  IF ~PastThreshold(start_world, world, z) THEN f
             ELSE IF f.tool.is_moving_shape
             THEN [f EXCEPT !.tool.is_dragging = TRUE,
                            !.shapes = apply_drag(f.shapes, f.tool.active_hit, delta),
                            !.applied = TRUE]
             ELSE [f EXCEPT !.tool.is_dragging = TRUE,
                            !.tool.is_marquee = TRUE,
                            !.selected_shapes =
                                select_shapes_in_rect(f.shapes,
                                    RectFromTwoPos(start_world, world))]

\* SelectionTool::handle_input, the drag_stopped block
SelectionDragStopped(f) ==
    [f EXCEPT !.selected_shapes =
                 IF ~f.tool.is_dragging /\ f.tool.active_hit = NoHit
                 THEN Clear(f.selected_shapes) ELSE f.selected_shapes,
              !.tool = SelectionToolNew]

\* SelectionTool::paint indexes app.shapes with every selected index
SelectionPaintPanics(shps, sel_shapes) ==
    \E shape_idx \in sel_shapes : ~InRange(shps, shape_idx)

\* the pointer events egui can report given whether a drag is under way
PointerAllows(ev) ==
    IF pointer_down THEN ev \in {"dragged", "drag_stopped"}
    ELSE ev \in {"hover", "drag_started"}

\* one frame of update() with the Selection tool active: handle_input runs
\* its blocks in this order (the frame that starts a drag also reports it as
\* dragged), then the tool is painted
SelectionFrame(ev, world, shift_held) ==
    /\ ~panicked
    /\ selected_tool = "Selection"
    /\ PointerAllows(ev)
    /\ \E f0 \in {Frame(shapes, selected_shapes, selected_points, selecting_tool)} :
       \E hit \in {IF ev = "drag_started" THEN hit_test_all(shapes, zoom, world)
                   ELSE NoHit} :
       \E f1 \in {IF ev = "drag_started"
                  THEN SelectionDragStarted(f0, hit, world, shift_held) ELSE f0} :
       \E f2 \in {IF ev \in {"drag_started", "dragged"}
                  THEN SelectionDragged(f1, zoom, world) ELSE f1} :
       \E f \in {IF ev = "drag_stopped" THEN SelectionDragStopped(f2) ELSE f2} :
           /\ f.applied => ndrags < MaxDrags
           /\ InGrid(f.shapes)
           /\ shapes' = f.shapes
           /\ selected_shapes' = f.selected_shapes
           /\ selected_points' = f.selected_points
           /\ selecting_tool' = f.tool
           /\ ndrags' = IF f.applied THEN ndrags + 1 ELSE ndrags
           /\ panicked' = SelectionPaintPanics(f.shapes, f.selected_shapes)
    /\ pointer_down' = (ev \in {"drag_started", "dragged"})
    /\ last' = [op |-> "SelectionTool", ev |-> ev, mouse |-> world, shift |-> shift_held]
    /\ UNCHANGED <<zoom, selected_tool, held_hit, base, otherToolVars>>

\* pop() on the list of shapes
Pop(shps) == IF Len(shps) = 0 THEN shps ELSE SubSeq(shps, 1, Len(shps) - 1)

\* one frame of update() with the Drawing tool active, the pointer idle and
\* Delete or Backspace pressed
DrawingDeleteFrame ==
    /\ ~panicked
    /\ selected_tool = "Drawing"
    /\ ~pointer_down
    /\ shapes' = Pop(shapes)
    /\ last' = [op |-> "DrawingTool", ev |-> "key_delete"]
    /\ UNCHANGED <<zoom, selected_shapes, selected_points, selecting_tool, pointer_down,
                   panicked, held_hit, base, ndrags, selected_tool, otherToolVars>>

\* one frame of update() in which a button of the tools window is clicked:
\* the active tool is painted, then selected_tool is set
SwitchTool(kind) ==
    /\ ~panicked
    /\ ~pointer_down
    /\ panicked' = (selected_tool = "Selection"
                    /\ SelectionPaintPanics(shapes, selected_shapes))
    /\ selected_tool' = IF panicked' THEN selected_tool ELSE kind
    /\ last' = [op |-> "show_tools_window", kind |-> kind]
    /\ UNCHANGED <<shapes, zoom, selected_shapes, selected_points, selecting_tool,
                   pointer_down, held_hit, base, ndrags, otherToolVars>>

Init == InitWith(InitDocs, InitZooms)

Next ==
    \/ \E ev \in PointerEvents, world \in PointerPts, shift_held \in BOOLEAN :
          SelectionFrame(ev, world, shift_held)
    \/ DrawingDeleteFrame
    \/ \E kind \in ToolKinds : SwitchTool(kind)

Spec == Init /\ [][Next]_vars

----------------------------------------------------------------------------
(* The view transform driven frame by frame: scroll over the canvas in the *)
(* tools that zoom, the Panning tool's drags and its Reset button.         *)

\* at most this many frames that scroll, pan or reset in one behaviour
MaxViewSteps == 3

AllToolKinds == {"Drawing", "Panning", "Editing", "Selection", "Curvature",
                 "DirectSelection"}
\* the tools other than Panning whose handle_input has the scroll block
ScrollTools == {"Drawing", "Editing", "Selection"}
\* where the pointer is on the screen
ScreenPts == {RVec(0, 0), RVec(4, 2), RVec(10, 6)}
\* exp(scroll_delta * 0.009) for the scroll deltas of a frame
ZoomDeltas == {<<2, 1>>, <<1, 2>>, <<20, 1>>, <<1, 20>>}
NoScroll == <<1, 1>>

docVars == <<shapes, selected_shapes, selected_points, selecting_tool, drawVars,
             curvature_tool, editToolVars, panicked, held_hit, base>>

\* one frame of update() in Drawing, Editing or Selection with the pointer
\* hovering over the canvas, no button down and the wheel turned
ScrollFrame(pointer_pos, zoom_delta) ==
    /\ ~panicked
    /\ selected_tool \in ScrollTools
    /\ ~pointer_down
    /\ ndrags < MaxViewSteps
    /\ ndrags' = ndrags + 1
    /\ \E v \in {ScrollZoom(pan_offset, zoom, pointer_pos, zoom_delta)} :
           /\ zoom' = v.zoom
           /\ pan_offset' = v.pan_offset
           /\ zoom_percent' = v.zoom_percent
    /\ last' = [op |-> "scroll", pos |-> pointer_pos, zoom_delta |-> zoom_delta,
                zoom |-> zoom, pan_offset |-> pan_offset]
    /\ UNCHANGED <<docVars, panning_tool, selected_tool, pointer_down>>

\* PanningTool::handle_input with the drag adding the pointer's offset to the
\* current pan_offset instead of the one captured at drag-start
PanningHandleInput_Accumulates(v, ev, pos, zoom_delta) ==
    LET v1 == IF zoom_delta # NoScroll /\ ~v.tool.is_panning
              THEN LET z == ScrollZoom(v.pan_offset, v.zoom, pos, zoom_delta)
                   IN  [zoom |-> z.zoom, pan_offset |-> z.pan_offset,
                        zoom_percent |-> z.zoom_percent, tool |-> v.tool]
              ELSE v
        v2 == IF ev = "drag_started"
              THEN [v1 EXCEPT !.tool = [is_panning |-> TRUE, drag_start |-> Some(pos),
                                        orig_pan |-> v1.pan_offset]]
              ELSE v1
        v3 == IF ev \in {"drag_started", "dragged"} /\ v2.tool.drag_start # NoneOpt
              THEN [v2 EXCEPT !.pan_offset =
                        <<RAdd(v2.pan_offset[1], RSub(pos[1], v2.tool.drag_start[1][1])),
                          RAdd(v2.pan_offset[2], RSub(pos[2], v2.tool.drag_start[1][2]))>>]
              ELSE v2
    IN  IF ev = "drag_stopped"
        THEN [v3 EXCEPT !.tool.drag_start = NoneOpt, !.tool.is_panning = FALSE]
        ELSE v3

\* PanningTool::handle_input with the scroll block not skipped while panning
PanningHandleInput_ScrollsWhilePanning(v, ev, pos, zoom_delta) ==
    LET v1 == IF zoom_delta # NoScroll
              THEN LET z == ScrollZoom(v.pan_offset, v.zoom, pos, zoom_delta)
                   IN  [zoom |-> z.zoom, pan_offset |-> z.pan_offset,
                        zoom_percent |-> z.zoom_percent, tool |-> v.tool]
              ELSE v
        v2 == IF ev = "drag_started"
              THEN [v1 EXCEPT !.tool = [is_panning |-> TRUE, drag_start |-> Some(pos),
                                        orig_pan |-> v1.pan_offset]]
              ELSE v1
        v3 == IF ev \in {"drag_started", "dragged"} /\ v2.tool.drag_start # NoneOpt
              THEN [v2 EXCEPT !.pan_offset =
                        <<RAdd(v2.tool.orig_pan[1], RSub(pos[1], v2.tool.drag_start[1][1])),
                          RAdd(v2.tool.orig_pan[2], RSub(pos[2], v2.tool.drag_start[1][2]))>>]
              ELSE v2
    IN  IF ev = "drag_stopped"
        THEN [v3 EXCEPT !.tool.drag_start = NoneOpt, !.tool.is_panning = FALSE]
        ELSE v3

\* PanningTool::handle_input: scroll block (skipped while panning), then the
\* drag_started, dragged and drag_stopped blocks
PanningHandleInput(v, ev, pos, zoom_delta) ==
    LET v1 == IF zoom_delta # NoScroll /\ ~v.tool.is_panning
              THEN LET z == ScrollZoom(v.pan_offset, v.zoom, pos, zoom_delta)
                   IN  [zoom |-> z.zoom, pan_offset |-> z.pan_offset,
                        zoom_percent |-> z.zoom_percent, tool |-> v.tool]
              ELSE v
        v2 == IF ev = "drag_started"
              THEN [v1 EXCEPT !.tool = [is_panning |-> TRUE, drag_start |-> Some(pos),
                                        orig_pan |-> v1.pan_offset]]
              ELSE v1
        v3 == IF ev \in {"drag_started", "dragged"} /\ v2.tool.drag_start # NoneOpt
              THEN [v2 EXCEPT !.pan_offset =
                        <<RAdd(v2.tool.orig_pan[1], RSub(pos[1], v2.tool.drag_start[1][1])),
                          RAdd(v2.tool.orig_pan[2], RSub(pos[2], v2.tool.drag_start[1][2]))>>]
              ELSE v2
    IN  IF ev = "drag_stopped"
        THEN [v3 EXCEPT !.tool.drag_start = NoneOpt, !.tool.is_panning = FALSE]
        ELSE v3

\* one frame of update() with the Panning tool active
PanningFrame(ev, pos, zoom_delta) ==
    /\ ~panicked
    /\ selected_tool = "Panning"
    /\ PointerAllows(ev)
    /\ ndrags < MaxViewSteps
    /\ ndrags' = ndrags + 1
    /\ \E v \in {PanningHandleInput(
                    [zoom |-> zoom, pan_offset |-> pan_offset,
                     zoom_percent |-> zoom_percent, tool |-> panning_tool],
                    ev, pos, zoom_delta)} :
           /\ zoom' = v.zoom
           /\ pan_offset' = v.pan_offset
           /\ zoom_percent' = v.zoom_percent
           /\ panning_tool' = v.tool
    /\ pointer_down' = (ev \in {"drag_started", "dragged"})
    /\ last' = [op |-> "PanningTool", ev |-> ev, pos |-> pos, zoom_delta |-> zoom_delta,
                zoom |-> zoom, pan_offset |-> pan_offset,
                scrolled |-> (zoom_delta # NoScroll /\ ~panning_tool.is_panning)]
    /\ UNCHANGED <<docVars, selected_tool>>

\* PanningTool::tool_ui: the Reset Transformation button is clicked
ResetTransformation ==
    /\ ~panicked
    /\ selected_tool = "Panning"
    /\ ~pointer_down
    /\ ndrags < MaxViewSteps
    /\ ndrags' = ndrags + 1
    /\ zoom' = default_zoom
    /\ pan_offset' = RVec(0, 0)
    /\ last' = [op |-> "reset", zoom |-> zoom, pan_offset |-> pan_offset]
    /\ UNCHANGED <<docVars, zoom_percent, panning_tool, selected_tool, pointer_down>>

InitView == InitWith(InitDocs, {default_zoom})

NextView ==
    \/ \E pointer_pos \in ScreenPts, zoom_delta \in ZoomDeltas :
          ScrollFrame(pointer_pos, zoom_delta)
    \/ \E ev \in PointerEvents, pos \in ScreenPts, zoom_delta \in ZoomDeltas \cup {NoScroll} :
          PanningFrame(ev, pos, zoom_delta)
    \/ ResetTransformation
    \/ \E kind \in AllToolKinds : SwitchTool(kind)

SpecView == InitView /\ [][NextView]_vars

----------------------------------------------------------------------------
(* The Drawing tool driven frame by frame.  A frame hands the tool one     *)
(* pointer event, the pointer named by the world point it maps to, and the *)
(* Delete / Backspace presses of the frame.                                *)

\* samples of one stroke, strokes archived in one run, key presses per frame
MaxStrokeLen == 3
MaxArchived == 2
MaxKeys == 2

\* DrawingTool::new: sample_tol
sample_tol == 2

DrawDocs == {<<>>, <<Arch, Chain>>}
DrawPts == {<<1, 1>>, <<2, 1>>, <<5, 4>>}

\* the part of the application the Drawing tool works on, with the tool
DrawFrame(shps, shape, tool) ==
    [shapes |-> shps, curr_shape |-> shape, tool |-> tool]

\* DrawingTool::handle_input, the drag_started block
DrawingDragStarted(d, world) ==
    [d EXCEPT !.curr_shape.current_stroke = <<world>>]

\* last.distance(world_pos) > sample_tol / zoom, or no sample yet
should_add(stroke, world, z) ==
    IF Len(stroke) = 0 THEN TRUE
    ELSE DistSq(stroke[Len(stroke)], world) * z[1] * z[1]
             > sample_tol * sample_tol * z[2] * z[2]

\* DrawingTool::handle_input, the dragged block
DrawingDragged(d, z, world) ==
    IF should_add(d.curr_shape.current_stroke, world, z)
    THEN [d EXCEPT !.curr_shape.current_stroke = Append(@, world),
                   !.tool.is_drawing = TRUE]
    ELSE d

\* a drag_stopped block that archives only strokes that can be fitted
DrawingDragStopped_DropsShortStrokes(d) ==
    IF Len(d.curr_shape.current_stroke) >= 2
    THEN [shapes |-> Append(d.shapes,
                           ArchivedAt(d.curr_shape, d.tool.bezier_tolerance)),
          curr_shape |-> ShapeNew(d.tool.thickness),
          tool |-> [d.tool EXCEPT !.is_drawing = FALSE]]
    ELSE [d EXCEPT !.curr_shape = ShapeNew(d.tool.thickness),
                   !.tool.is_drawing = FALSE]

\* DrawingTool::handle_input, the drag_stopped block
DrawingDragStopped(d) ==
    IF Len(d.curr_shape.current_stroke) # 0
    THEN [shapes |-> Append(d.shapes,
                           ArchivedAt(d.curr_shape, d.tool.bezier_tolerance)),
          curr_shape |-> ShapeNew(d.tool.thickness),
          tool |-> [d.tool EXCEPT !.is_drawing = FALSE]]
    ELSE [d EXCEPT !.tool.is_drawing = FALSE]

\* a key loop that removes the oldest shapes
DrawingKeys_PopsFirst(d, keys) ==
    [d EXCEPT !.shapes = IF keys >= Len(@) THEN <<>> ELSE SubSeq(@, 1 + keys, Len(@))]

\* DrawingTool::handle_input, the loop over the key events of the frame:
\* one pop() per Delete or Backspace press
RECURSIVE DrawingKeys(_, _)
DrawingKeys(d, keys) ==
    IF keys = 0 THEN d
    ELSE DrawingKeys([d EXCEPT !.shapes = Pop(@)], keys - 1)

\* one frame of update() with the Drawing tool active and no scroll:
\* handle_input runs its blocks in this order (the frame that starts a drag
\* also reports it as dragged); DrawingTool::paint reads only the tool
DrawingFrame(ev, world, keys) ==
    /\ ~panicked
    /\ selected_tool = "Drawing"
    /\ PointerAllows(ev)
    /\ \E d0 \in {DrawFrame(shapes, curr_shape, drawing_tool)} :
       \E d1 \in {IF ev = "drag_started" THEN DrawingDragStarted(d0, world) ELSE d0} :
       \E d2 \in {IF ev \in {"drag_started", "dragged"}
                  THEN DrawingDragged(d1, zoom, world) ELSE d1} :
       \E d3 \in {IF ev = "drag_stopped" THEN DrawingDragStopped(d2) ELSE d2} :
       \E d \in {DrawingKeys(d3, keys)} :
           /\ Len(d.curr_shape.current_stroke) <= MaxStrokeLen
           /\ Len(d3.shapes) > Len(shapes) => ndrags < MaxArchived
           /\ ndrags' = IF Len(d3.shapes) > Len(shapes) THEN ndrags + 1 ELSE ndrags
           /\ shapes' = d.shapes
           /\ curr_shape' = d.curr_shape
           /\ drawing_tool' = d.tool
    /\ pointer_down' = (ev \in {"drag_started", "dragged"})
    /\ last' = [op |-> "DrawingTool", ev |-> ev, mouse |-> world, keys |-> keys]
    /\ UNCHANGED <<zoom, selected_shapes, selected_points, selected_tool, selecting_tool,
                   viewVars, curvature_tool, editToolVars, panicked, held_hit, base>>

\* DrawingTool::tool_ui, the Tolerance slider moved to tol: the slider
\* writes the tool's field and the value it answers is dropped
DrawingToolUi(tol) ==
    /\ ~panicked
    /\ selected_tool = "Drawing"
    /\ ~pointer_down
    /\ tol # drawing_tool.bezier_tolerance
    /\ drawing_tool' = [drawing_tool EXCEPT !.bezier_tolerance = tol]
    /\ last' = [op |-> "tool_ui", tol |-> tol]
    /\ UNCHANGED <<shapes, curr_shape, zoom, selected_shapes, selected_points,
                   selected_tool, selecting_tool, viewVars, curvature_tool,
                   editToolVars, panicked, held_hit, base, ndrags, pointer_down>>

InitDraw == InitWith(DrawDocs, InitZooms)

NextDraw ==
    \E ev \in PointerEvents, world \in DrawPts, keys \in 0..MaxKeys :
        DrawingFrame(ev, world, keys)

SpecDraw == InitDraw /\ [][NextDraw]_vars

----------------------------------------------------------------------------
(* The Curvature tool driven frame by frame, the pointer named by the      *)
(* world point it maps to.                                                 *)

CurvPts == {<<1, 7>>, <<2, 7>>, <<7, 7>>, <<0, 1>>, <<4, 4>>, <<3, 2>>, <<5, 5>>}
CurvEvents == PointerEvents \cup {"clicked"}

\* the part of the application the Curvature tool works on, with the tool
CurvFrame(shps, tool) == [shapes |-> shps, tool |-> tool, applied |-> FALSE]

\* a drag_started block that holds whatever control point was hit
CurvatureDragStarted_AnyControlPoint(c, hit, world) ==
    IF hit.kind = "ControlPoint"
    THEN [c EXCEPT !.tool.active_hit = hit, !.tool.drag_start_world = Some(world)]
    ELSE [c EXCEPT !.tool = CurvatureToolNew]

\* CurvatureTool::handle_input, the drag_started block; hit is what
\* hit_test_all returned for world
CurvatureDragStarted(c, hit, world) ==
    IF hit.kind = "ControlPoint" /\ (hit.ctrl_idx = 1 \/ hit.ctrl_idx = 2)
    THEN [c EXCEPT !.tool.active_hit =
                       ControlPoint(hit.shape_idx, hit.bez_idx, hit.ctrl_idx, hit.orig_pos),
                   !.tool.drag_start_world = Some(world)]
    ELSE [c EXCEPT !.tool.active_hit = NoHit, !.tool.drag_start_world = NoneOpt]

\* CurvatureTool::handle_input, the dragged block
CurvatureDragged(c, world) ==
    IF c.tool.drag_start_world = NoneOpt THEN c
    ELSE LET start_world == c.tool.drag_start_world[1]
             delta == KPoint(world[1] - start_world[1], world[2] - start_world[2])
         IN  [c EXCEPT !.shapes = apply_drag(c.shapes, c.tool.active_hit, delta),
                       !.applied = TRUE]

\* CurvatureTool::handle_input, the drag_stopped block
CurvatureDragStopped(c) ==
    [c EXCEPT !.tool.active_hit = NoHit, !.tool.drag_start_world = NoneOpt]

\* the events egui can report to the Curvature tool
CurvAllows(ev) == IF ev = "clicked" THEN ~pointer_down ELSE PointerAllows(ev)

\* one frame of update() with the Curvature tool active: handle_input runs
\* its blocks in this order (the frame that starts a drag also reports it as
\* dragged; the clicked block only prints); CurvatureTool::paint only reads
CurvatureFrame(ev, world) ==
    /\ ~panicked
    /\ selected_tool = "Curvature"
    /\ CurvAllows(ev)
    /\ \E c0 \in {CurvFrame(shapes, curvature_tool)} :
       \E hit \in {IF ev = "drag_started" THEN hit_test_all(shapes, zoom, world)
                   ELSE NoHit} :
       \E c1 \in {IF ev = "drag_started" THEN CurvatureDragStarted(c0, hit, world)
                  ELSE c0} :
       \E c2 \in {IF ev \in {"drag_started", "dragged"} THEN CurvatureDragged(c1, world)
                  ELSE c1} :
       \E c \in {IF ev = "drag_stopped" THEN CurvatureDragStopped(c2) ELSE c2} :
           /\ c.applied => ndrags < MaxDrags
           /\ InGrid(c.shapes)
           /\ shapes' = c.shapes
           /\ curvature_tool' = c.tool
           /\ ndrags' = IF c.applied THEN ndrags + 1 ELSE ndrags
    /\ pointer_down' = (ev \in {"drag_started", "dragged"})
    /\ last' = [op |-> "CurvatureTool", ev |-> ev, mouse |-> world]
    /\ UNCHANGED <<zoom, selected_shapes, selected_points, selected_tool, selecting_tool,
                   viewVars, drawVars, editToolVars, panicked, held_hit, base>>

InitCurv == InitWith(InitDocs, InitZooms)

NextCurv ==
    \/ \E ev \in CurvEvents, world \in CurvPts : CurvatureFrame(ev, world)
    \/ SwitchTool("Curvature")

SpecCurv == InitCurv /\ [][NextCurv]_vars

----------------------------------------------------------------------------
(* The Direct-Selection tool and the Shaper methods it calls.  The canvas  *)
(* is allocated with Sense::drag(), so its Response never reports a click  *)
(* and the tool's clicked block does not run.                              *)

\* points selected at once, in one gesture or by a marquee; frames of one
\* run that move points
MaxSelected == 3
MaxMoves == 1

\* Shaper::get_point_position
get_point_position(shps, pid) ==
    IF /\ InRange(shps, pid.shape_idx)
       /\ InRange(At(shps, pid.shape_idx).beziers, pid.bezier_idx)
    THEN Some(Handle(At(At(shps, pid.shape_idx).beziers, pid.bezier_idx),
                     IF pid.ctrl_idx \in 1..3 THEN pid.ctrl_idx ELSE 0))
    ELSE NoneOpt

\* Shaper::move_point_to, the arm for p0
MoveStartAnchor(beziers, bez_idx, new_pos) ==
    LET bez == At(beziers, bez_idx)
        dx == new_pos[1] - bez.p0[1]
        dy == new_pos[2] - bez.p0[2]
    IN  [i \in 1..Len(beziers) |->
            IF i = bez_idx + 1
            THEN [beziers[i] EXCEPT !.p0 = new_pos, !.p1 = Translate(@, dx, dy)]
            ELSE IF i = bez_idx /\ bez_idx > 0
            THEN [beziers[i] EXCEPT !.p3 = new_pos, !.p2 = Translate(@, dx, dy)]
            ELSE beziers[i]]

\* Shaper::move_point_to, the arm for p3
MoveEndAnchor(beziers, bez_idx, new_pos) ==
    LET bez == At(beziers, bez_idx)
        dx == new_pos[1] - bez.p3[1]
        dy == new_pos[2] - bez.p3[2]
    IN  [i \in 1..Len(beziers) |->
            IF i = bez_idx + 1
            THEN [beziers[i] EXCEPT !.p3 = new_pos, !.p2 = Translate(@, dx, dy)]
            ELSE IF i = bez_idx + 2 /\ bez_idx + 1 < Len(beziers)
            THEN [beziers[i] EXCEPT !.p0 = new_pos, !.p1 = Translate(@, dx, dy)]
            ELSE beziers[i]]

\* Shaper::move_point_to
move_point_to(shps, pid, new_pos) ==
    IF /\ InRange(shps, pid.shape_idx)
       /\ InRange(At(shps, pid.shape_idx).beziers, pid.bezier_idx)
    THEN LET beziers == At(shps, pid.shape_idx).beziers
         IN  SetBeziers(shps, pid.shape_idx,
                CASE pid.ctrl_idx = 0 -> MoveStartAnchor(beziers, pid.bezier_idx, new_pos)
                  [] pid.ctrl_idx = 1 -> DragHandle(beziers, pid.bezier_idx, 1, new_pos)
                  [] pid.ctrl_idx = 2 -> DragHandle(beziers, pid.bezier_idx, 2, new_pos)
                  [] pid.ctrl_idx = 3 -> MoveEndAnchor(beziers, pid.bezier_idx, new_pos)
                  [] OTHER -> beziers)
    ELSE shps

\* the orders in which a HashSet<PointId> can be iterated
Orders(set) ==
    {order \in [1..Cardinality(set) -> set] :
        \A i, j \in 1..Cardinality(set) : i # j => order[i] # order[j]}

\* for &sel_pid in &app.selected_points { if let Some(orig_pt) = ... push }
RECURSIVE RecordOrigins(_, _, _)
RecordOrigins(shps, order, i) ==
    IF i > Len(order) THEN <<>>
    ELSE LET orig_pt == get_point_position(shps, order[i])
         IN  (IF orig_pt = NoneOpt THEN <<>> ELSE <<<<order[i], orig_pt[1]>>>>)
                \o RecordOrigins(shps, order, i + 1)

\* for (pid, orig_pos) in &self.dragged_point_origins { move_point_to(..) }
RECURSIVE MoveOrigins(_, _, _, _)
MoveOrigins(shps, origins, delta, i) ==
    IF i > Len(origins) THEN shps
    ELSE MoveOrigins(move_point_to(shps, origins[i][1],
                                   KPoint(origins[i][2][1] + delta[1],
                                          origins[i][2][2] + delta[2])),
                     origins, delta, i + 1)

\* DirectSelectionTool::handle_input, the drag_started block: what becomes of
\* selected_points
DirectStartSelection(sel_points, hit, shift) ==
    IF hit.kind = "ControlPoint"
    THEN LET pid == PointId(hit.shape_idx, hit.bez_idx, hit.ctrl_idx)
         IN  IF shift
             THEN IF pid \in sel_points THEN sel_points \ {pid}
                  ELSE sel_points \cup {pid}
             ELSE IF sel_points = {pid} THEN sel_points ELSE {pid}
    ELSE IF shift THEN sel_points ELSE Clear(sel_points)

\* the drag_started block starts a drag of the selected points
DirectStartsDrag(sel_points, hit, shift) ==
    /\ hit.kind = "ControlPoint"
    /\ shift => PointId(hit.shape_idx, hit.bez_idx, hit.ctrl_idx) \notin sel_points

\* DirectSelectionTool::handle_input, the drag_started block; hit is what
\* hit_test_all returned for world, order the iteration order of
\* selected_points
DirectDragStarted(f, hit, world, shift, order) ==
    IF DirectStartsDrag(f.selected_points, hit, shift)
    THEN [f EXCEPT !.selected_points = DirectStartSelection(@, hit, shift),
                   !.tool = [active_hit |-> ControlPoint(hit.shape_idx, hit.bez_idx,
                                                         hit.ctrl_idx, hit.orig_pos),
                             is_marquee |-> FALSE,
                             drag_start_world |-> Some(world),
                             dragged_point_origins |-> RecordOrigins(f.shapes, order, 1)]]
    ELSE [f EXCEPT !.selected_points = DirectStartSelection(@, hit, shift),
                   !.tool = [active_hit |-> NoHit,
                             is_marquee |-> TRUE,
                             drag_start_world |-> Some(world),
                             dragged_point_origins |-> <<>>]]

\* DRAG_THRESHOLD > distance_moved
DirectWithinThreshold(start, cur) ==
    DRAG_THRESHOLD * DRAG_THRESHOLD > DistSq(start, cur)

\* DirectSelectionTool::handle_input, the dragged block
DirectDragged(f, world) ==
    IF f.tool.drag_start_world = NoneOpt THEN f
    ELSE LET start_world == f.tool.drag_start_world[1]
             delta == KPoint(world[1] - start_world[1], world[2] - start_world[2])
         IN  IF ~DirectWithinThreshold(start_world, world) THEN f
             ELSE IF f.tool.is_marquee
             THEN [f EXCEPT !.selected_points =
                                select_points_in_rect(f.shapes,
                                    RectFromTwoPos(start_world, world)),
                            !.selected_shapes = Clear(@)]
             ELSE [f EXCEPT !.shapes =
                                MoveOrigins(f.shapes, f.tool.dragged_point_origins,
                                            delta, 1),
                            !.applied = TRUE]

\* DirectSelectionTool::handle_input, the drag_stopped block
DirectDragStopped(f) == [f EXCEPT !.tool = DirectSelectionToolNew]

\* one frame of update() with the Direct-Selection tool active: handle_input
\* runs its blocks in this order (the frame that starts a drag also reports
\* it as dragged); DirectSelectionTool::paint only reads
DirectSelectionFrame(ev, world, shift) ==
    /\ ~panicked
    /\ selected_tool = "DirectSelection"
    /\ PointerAllows(ev)
    /\ \E f0 \in {Frame(shapes, selected_shapes, selected_points, direct_selecting_tool)} :
       \E hit \in {IF ev = "drag_started" THEN hit_test_all(shapes, zoom, world)
                   ELSE NoHit} :
       \E order \in (IF ev = "drag_started"
                        /\ DirectStartsDrag(selected_points, hit, shift)
                     THEN Orders(DirectStartSelection(selected_points, hit, shift))
                     ELSE {<<>>}) :
       \E f1 \in {IF ev = "drag_started"
                  THEN DirectDragStarted(f0, hit, world, shift, order) ELSE f0} :
       \E f2 \in {IF ev \in {"drag_started", "dragged"}
                  THEN DirectDragged(f1, world) ELSE f1} :
       \E f \in {IF ev = "drag_stopped" THEN DirectDragStopped(f2) ELSE f2} :
           /\ f.shapes # shapes => ndrags < MaxMoves
           /\ InGrid(f.shapes)
           /\ Cardinality(f.selected_points) <= MaxSelected
           /\ shapes' = f.shapes
           /\ selected_shapes' = f.selected_shapes
           /\ selected_points' = f.selected_points
           /\ direct_selecting_tool' = f.tool
           /\ ndrags' = IF f.shapes # shapes THEN ndrags + 1 ELSE ndrags
    /\ pointer_down' = (ev \in {"drag_started", "dragged"})
    /\ last' = [op |-> "DirectSelectionTool", ev |-> ev, mouse |-> world, shift |-> shift]
    /\ UNCHANGED <<zoom, selected_tool, selecting_tool, viewVars, drawVars,
                   curvature_tool, editing_tool, panicked, held_hit, base>>

DirectPts == {<<0, 1>>, <<1, 4>>, <<1, 5>>, <<1, 7>>, <<4, 7>>, <<6, 4>>}
DirectSelectPts == {<<0, 4>>, <<4, 3>>}
DirectTools == {"Selection", "DirectSelection"}

InitDirect == InitWith(InitDocs, InitZooms)

NextDirect ==
    \/ \E ev \in PointerEvents, world \in DirectPts, shift \in BOOLEAN :
          DirectSelectionFrame(ev, world, shift)
    \/ \E ev \in PointerEvents, world \in DirectSelectPts, shift_held \in BOOLEAN :
          SelectionFrame(ev, world, shift_held)
    \/ \E kind \in DirectTools : SwitchTool(kind)

SpecDirect == InitDirect /\ [][NextDirect]_vars

----------------------------------------------------------------------------
(* The Editing tool driven frame by frame.  The tool has a hit test of its *)
(* own and moves the points itself; it keeps what is dragged in            *)
(* active_drag, an ActiveDrag with the fields of a HitTestResult.          *)

overlay_beziers_thickness == 1

\* nearest.distance_sq <= tol_curve_ws * tol_curve_ws
EditingCurveWithinTol(bez, mouse) ==
    nearest_distance_sq(bez, mouse)
      <= NearestScale * NearestScale
           * overlay_beziers_thickness * overlay_beziers_thickness

\* the body of the loop over segments: the four handles, then the curve
EditingScanSegment(shape_idx, bez_idx, bez, mouse) ==
    LET r == ScanHandles(shape_idx, bez_idx, bez, mouse, 0)
    IN  IF r # NoHit THEN r
        ELSE IF EditingCurveWithinTol(bez, mouse)
             THEN CurveSegment(shape_idx, bez_idx, bez)
             ELSE NoDrag

\* the loop over the segments of one shape, in ascending order from bez_idx
RECURSIVE EditingScanBeziers(_, _, _, _)
EditingScanBeziers(shape_idx, shape, mouse, bez_idx) ==
    IF bez_idx >= Len(shape.beziers) THEN NoDrag
    ELSE LET r == EditingScanSegment(shape_idx, bez_idx,
                                     At(shape.beziers, bez_idx), mouse)
         IN  IF r # NoDrag THEN r
             ELSE EditingScanBeziers(shape_idx, shape, mouse, bez_idx + 1)

\* the loop 'outer over the shapes, in ascending order from shape_idx
RECURSIVE EditingScanShapes(_, _, _)
EditingScanShapes(shps, mouse, shape_idx) ==
    IF shape_idx >= Len(shps) THEN NoDrag
    ELSE LET r == EditingScanBeziers(shape_idx, At(shps, shape_idx), mouse, 0)
         IN  IF r # NoDrag THEN r
             ELSE EditingScanShapes(shps, mouse, shape_idx + 1)

\* the part of the application the Editing tool works on, with the tool
EditFrame(shps, tool) ==
    [shapes |-> shps, tool |-> tool, applied |-> FALSE, panics |-> FALSE]

\* handle_input, drag_started block
EditingDragStarted(e, world) ==
    [e EXCEPT !.tool.drag_start = Some(world),
              !.tool.active_drag = EditingScanShapes(e.shapes, world, 0)]

\* a ControlPoint arm that moves the point and leaves the neighbouring
\* segment alone
EditingMoveControlPoint_LeavesNeighbour(beziers, bez_idx, ctrl_idx, new_pt) ==
    [beziers EXCEPT ![bez_idx + 1] =
        CASE ctrl_idx = 0 -> [@ EXCEPT !.p0 = new_pt]
          [] ctrl_idx = 1 -> [@ EXCEPT !.p1 = new_pt]
          [] ctrl_idx = 2 -> [@ EXCEPT !.p2 = new_pt]
          [] ctrl_idx = 3 -> [@ EXCEPT !.p3 = new_pt]]

\* the ControlPoint arm of the dragged block: the point itself, and for an
\* anchor the coincident anchor of the neighbouring segment
EditingMoveControlPoint(beziers, bez_idx, ctrl_idx, new_pt) ==
    CASE ctrl_idx = 0 ->
           LET moved == [beziers EXCEPT ![bez_idx + 1] = [@ EXCEPT !.p0 = new_pt]]
           IN  IF bez_idx > 0
               THEN [moved EXCEPT ![bez_idx] = [@ EXCEPT !.p3 = new_pt]]
               ELSE moved
      [] ctrl_idx = 1 -> [beziers EXCEPT ![bez_idx + 1] = [@ EXCEPT !.p1 = new_pt]]
      [] ctrl_idx = 2 -> [beziers EXCEPT ![bez_idx + 1] = [@ EXCEPT !.p2 = new_pt]]
      [] ctrl_idx = 3 ->
           LET moved == [beziers EXCEPT ![bez_idx + 1] = [@ EXCEPT !.p3 = new_pt]]
           IN  IF bez_idx + 1 < Len(beziers)
               THEN [moved EXCEPT ![bez_idx + 2] = [@ EXCEPT !.p0 = new_pt]]
               ELSE moved

\* the CurveSegment arm of the dragged block: the four points from their
\* recorded positions, and the neighbours' joints
EditingMoveCurveSegment(beziers, bez_idx, drag, delta) ==
    LET new_p0 == KPoint(drag.orig_p0[1] + delta[1], drag.orig_p0[2] + delta[2])
        new_p1 == KPoint(drag.orig_p1[1] + delta[1], drag.orig_p1[2] + delta[2])
        new_p2 == KPoint(drag.orig_p2[1] + delta[1], drag.orig_p2[2] + delta[2])
        new_p3 == KPoint(drag.orig_p3[1] + delta[1], drag.orig_p3[2] + delta[2])
        moved == [beziers EXCEPT ![bez_idx + 1] = CubicBez(new_p0, new_p1, new_p2, new_p3)]
        withPrev == IF bez_idx > 0
                    THEN [moved EXCEPT ![bez_idx] = [@ EXCEPT !.p3 = new_p0]]
                    ELSE moved
    IN  IF bez_idx + 1 < Len(beziers)
        THEN [withPrev EXCEPT ![bez_idx + 2] = [@ EXCEPT !.p0 = new_p3]]
        ELSE withPrev

\* handle_input, dragged block: app.shapes[*shape_idx] and
\* shape.beziers[*bez_idx] are unchecked and panic when out of range
EditingDragged(e, world) ==
    LET drag == e.tool.active_drag
        start == e.tool.drag_start
    IN  IF start = NoneOpt \/ drag = NoDrag THEN e
        ELSE IF ~InRange(e.shapes, drag.shape_idx)
                  \/ ~InRange(At(e.shapes, drag.shape_idx).beziers, drag.bez_idx)
             THEN [e EXCEPT !.panics = TRUE]
             ELSE LET delta == <<world[1] - start[1][1], world[2] - start[1][2]>>
                      beziers == At(e.shapes, drag.shape_idx).beziers
                      moved ==
                        IF drag.kind = "ControlPoint"
                        THEN EditingMoveControlPoint(beziers, drag.bez_idx, drag.ctrl_idx,
                                 KPoint(drag.orig_pos[1] + delta[1],
                                        drag.orig_pos[2] + delta[2]))
                        ELSE EditingMoveCurveSegment(beziers, drag.bez_idx, drag, delta)
                  IN  [e EXCEPT !.shapes = SetBeziers(e.shapes, drag.shape_idx, moved),
                                !.applied = TRUE]

\* handle_input, drag_stopped block, forgetting only where the drag began
EditingDragStopped_KeepsActiveDrag(e) ==
    [e EXCEPT !.tool.drag_start = NoneOpt]

\* handle_input, drag_stopped block
EditingDragStopped(e) ==
    [e EXCEPT !.tool.drag_start = NoneOpt, !.tool.active_drag = NoDrag]

\* one frame of update() with the Editing tool active; the tool paints
\* nothing
EditingFrame(ev, world) ==
    /\ ~panicked
    /\ selected_tool = "Editing"
    /\ PointerAllows(ev)
    /\ \E e0 \in {EditFrame(shapes, editing_tool)} :
       \E e1 \in {IF ev = "drag_started" THEN EditingDragStarted(e0, world) ELSE e0} :
       \E e2 \in {IF ev \in {"drag_started", "dragged"} THEN EditingDragged(e1, world)
                  ELSE e1} :
       \E e \in {IF ev = "drag_stopped" THEN EditingDragStopped(e2) ELSE e2} :
           /\ e.shapes # shapes => ndrags < MaxDrags
           /\ InGrid(e.shapes)
           /\ shapes' = e.shapes
           /\ editing_tool' = e.tool
           /\ panicked' = e.panics
           /\ ndrags' = IF e.shapes # shapes THEN ndrags + 1 ELSE ndrags
    /\ pointer_down' = (ev \in {"drag_started", "dragged"})
    /\ last' = [op |-> "EditingTool", ev |-> ev, mouse |-> world]
    /\ UNCHANGED <<zoom, selected_shapes, selected_points, selected_tool, selecting_tool,
                   viewVars, drawVars, curvature_tool, direct_selecting_tool,
                   held_hit, base>>

----------------------------------------------------------------------------
(* All six tools driven frame by frame: the tools window switches between  *)
(* them while no button is down, and each frame goes to the active tool.   *)

\* where the pointer is in a frame, in world coordinates
ToolPts == {<<1, 1>>, <<4, 7>>}
\* where the pointer is on the screen in a frame of the Panning tool
ToolScreenPts == {RVec(0, 0), RVec(4, 2)}

InitTools == InitWith(InitDocs, {default_zoom})

NextTools ==
    \/ \E ev \in PointerEvents, world \in ToolPts : DrawingFrame(ev, world, 0)
    \/ \E ev \in PointerEvents, pos \in ToolScreenPts : PanningFrame(ev, pos, NoScroll)
    \/ \E ev \in PointerEvents, world \in ToolPts : EditingFrame(ev, world)
    \/ \E ev \in PointerEvents, world \in ToolPts, shift_held \in BOOLEAN :
          SelectionFrame(ev, world, shift_held)
    \/ \E ev \in PointerEvents, world \in ToolPts : CurvatureFrame(ev, world)
    \/ \E ev \in PointerEvents, world \in ToolPts, shift \in BOOLEAN :
          DirectSelectionFrame(ev, world, shift)
    \/ \E kind \in AllToolKinds : SwitchTool(kind)

SpecTools == InitTools /\ [][NextTools]_vars

----------------------------------------------------------------------------
(* Shape::refit_all_strokes applied to the shapes of a document whose      *)
(* segments the Editing tool may have moved since they were fitted.        *)

\* the tolerances a refit is asked for
FitTols == {1, bezier_tolerance, 50}

\* a stroke of seven samples, a tap, and a stroke of four samples
StrokeA == <<<<1, 1>>, <<1, 2>>, <<3, 2>>, <<3, 1>>, <<3, 0>>, <<5, 0>>, <<5, 1>>>>
Tap == <<<<4, 4>>>>
StrokeB == <<<<4, 7>>, <<5, 7>>, <<6, 7>>, <<7, 7>>>>

\* one more stroke stored and fitted in a shape that was not reset
WithStroke(shape, stroke) == Archived([shape EXCEPT !.current_stroke = stroke])

\* a shape of three raw strokes
Sketch == WithStroke(WithStroke(Drawn(1, StrokeA), Tap), StrokeB)

RefitDocs == {<<Arch, Sketch>>, <<Sketch, Chain>>}

\* the Drawing tool with its settings panel: strokes are drawn and the
\* Tolerance slider is moved between them
InitTol == InitWith(DrawDocs \cup RefitDocs, {default_zoom})

NextTol ==
    \/ \E ev \in PointerEvents, world \in DrawPts : DrawingFrame(ev, world, 0)
    \/ \E tol \in FitTols : DrawingToolUi(tol)

SpecTol == InitTol /\ [][NextTol]_vars

\* refit_all_strokes(bzr_tol) is called on one shape of the document while
\* no gesture is under way
RefitShape(shape_idx, bzr_tol) ==
    /\ ~panicked
    /\ ~pointer_down
    /\ InRange(shapes, shape_idx)
    /\ shapes' = [shapes EXCEPT ![shape_idx + 1] = refit_all_strokes(@, bzr_tol)]
    /\ last' = [op |-> "refit_all_strokes", shape_idx |-> shape_idx, tol |-> bzr_tol,
                before |-> At(shapes, shape_idx)]
    /\ UNCHANGED <<zoom, selected_shapes, selected_points, selected_tool, selecting_tool,
                   otherToolVars, pointer_down, panicked, held_hit, base, ndrags>>

InitRefit == InitWith(RefitDocs, {default_zoom})

NextRefit ==
    \/ \E shape_idx \in 0..1, bzr_tol \in FitTols : RefitShape(shape_idx, bzr_tol)
    \/ \E ev \in PointerEvents, world \in ToolPts : EditingFrame(ev, world)
    \/ SwitchTool("Editing")

SpecRefit == InitRefit /\ [][NextRefit]_vars

----------------------------------------------------------------------------
(* The edit engine called with what a caller kept from before the document *)
(* changed: a HitTestResult or a selected PointId, and delete-last between *)
(* taking it and using it.                                                 *)

\* where a caller asks move_point_to to put a point
MoveTargets == {<<2, 2>>, <<6, 5>>}
\* how far a caller asks apply_drag to move what it holds
StaleDeltas == {<<1, 0>>, <<0, 1>>}

\* move_point_to(pid, new_pos) for a PointId of the selection
MovePointTo(pid, new_pos) ==
    /\ ~panicked
    /\ ndrags < MaxDrags
    /\ pid \in selected_points
    /\ shapes' = move_point_to(shapes, pid, new_pos)
    /\ InGrid(shapes')
    /\ last' = [op |-> "move_point_to", pid |-> pid, new_pos |-> new_pos]
    /\ ndrags' = ndrags + 1
    /\ UNCHANGED <<zoom, panicked, held_hit, base, toolVars>>

InitStale == InitWith(InitDocs, {default_zoom})

NextStale ==
    \/ \E mouse \in ToolPts : HitTest(mouse)
    \/ \E c \in {0, 1} : HoldControlPoint(1, 0, c)
    \/ HoldShapeBody(1)
    \/ \E delta \in StaleDeltas : ApplyDrag(delta)
    \/ \E idx \in Indices(shapes), c \in {0, 1} : SelectPointAndShape(PointId(idx, 0, c))
    \/ \E pid \in selected_points, new_pos \in MoveTargets : MovePointTo(pid, new_pos)
    \/ DrawingDeleteFrame

SpecStale == InitStale /\ [][NextStale]_vars

----------------------------------------------------------------------------
(* The tool slots of Shaper within a frame.  update() takes the active     *)
(* tool out of its Option<Box<dyn Tool>>, calls one of its methods with    *)
(* the application, and puts it back, three times per frame: handle_input  *)
(* and paint for the tool selected when the frame began, then, after the   *)
(* tools window, tool_ui for the tool selected by then.  A tool variable   *)
(* that holds NoneOpt is a slot whose tool is taken; last holds the        *)
(* position in update() and its locals current_tool and tool.  What the    *)
(* methods do to the document is left out here; a method may panic, which  *)
(* ends the process with the slot empty.                                   *)

\* the six Option<Box<dyn Tool>> fields of Shaper
Slots ==
    [Drawing |-> drawing_tool, Panning |-> panning_tool, Editing |-> editing_tool,
     Selection |-> selecting_tool, Curvature |-> curvature_tool,
     DirectSelection |-> direct_selecting_tool]

SetSlots(slots) ==
    /\ drawing_tool' = slots.Drawing
    /\ panning_tool' = slots.Panning
    /\ editing_tool' = slots.Editing
    /\ selecting_tool' = slots.Selection
    /\ curvature_tool' = slots.Curvature
    /\ direct_selecting_tool' = slots.DirectSelection

\* self.<slot>.take()
take(slots, kind) == [slots EXCEPT ![kind] = NoneOpt]

\* a frame phase that does not put the tool back
put_Dropped(slots, kind, tool) == slots

\* self.<slot> = Some(tool)
put(slots, kind, tool) == [slots EXCEPT ![kind] = tool]

Phases == <<"handle_input", "paint", "tool_ui">>
MoveModes == {"MovePoint", "MoveControlPoints"}

\* the tool a phase is about to use: current_tool, copied from selected_tool
\* when the frame begins and again on entry to show_tool_specific_ui
PhaseEnabled(phase) ==
    CASE phase = "handle_input" ->
           last.op = "init" \/ (last.op = "put" /\ last.phase = "tool_ui")
      [] phase = "paint" -> last.op = "put" /\ last.phase = "handle_input"
      [] phase = "tool_ui" -> last.op = "tools_window"

current_tool(phase) == IF phase = "paint" THEN last.current_tool ELSE selected_tool

slotRest == <<shapes, zoom, selected_shapes, selected_points, pan_offset, zoom_percent,
              curr_shape, pointer_down, held_hit, base, ndrags>>

\* .take().expect("... was None"): the tool leaves its slot, or the process
\* aborts when the slot is empty
TakeTool(phase) ==
    /\ ~panicked
    /\ PhaseEnabled(phase)
    /\ \E kind \in {current_tool(phase)} :
          IF Slots[kind] = NoneOpt
          THEN /\ panicked' = TRUE
               /\ last' = [op |-> "expect_failed", phase |-> phase, current_tool |-> kind,
                           tool |-> NoneOpt]
               /\ UNCHANGED <<drawing_tool, panning_tool, editing_tool, selecting_tool,
                              curvature_tool, direct_selecting_tool>>
          ELSE /\ SetSlots(take(Slots, kind))
               /\ last' = [op |-> "take", phase |-> phase, current_tool |-> kind,
                           tool |-> Slots[kind]]
               /\ UNCHANGED panicked
    /\ UNCHANGED <<slotRest, selected_tool>>

\* what the method can leave in the tool, as far as the radio buttons of
\* EditingTool::tool_ui go
ToolAfter(phase, kind, tool) ==
    IF phase = "tool_ui" /\ kind = "Editing"
    THEN {[tool EXCEPT !.move_mode = m] : m \in MoveModes}
    ELSE {tool}

\* tool.handle_input / paint / tool_ui(ctx, ..., self), then the tool is
\* put back; a panic in the method ends the process before that
RunTool(phase, panics) ==
    /\ ~panicked
    /\ last.op = "take" /\ last.phase = phase
    /\ IF panics
       THEN /\ panicked' = TRUE
            /\ last' = [last EXCEPT !.op = "panic"]
            /\ UNCHANGED <<drawing_tool, panning_tool, editing_tool, selecting_tool,
                           curvature_tool, direct_selecting_tool>>
       ELSE /\ \E tool \in ToolAfter(phase, last.current_tool, last.tool) :
                  SetSlots(put(Slots, last.current_tool, tool))
            /\ last' = [op |-> "put", phase |-> phase,
                        current_tool |-> last.current_tool, tool |-> NoneOpt]
            /\ UNCHANGED panicked
    /\ UNCHANGED <<slotRest, selected_tool>>

\* show_settings_window and show_tools_window: a button of the tools window
\* may be clicked
ToolsWindow(kind) ==
    /\ ~panicked
    /\ last.op = "put" /\ last.phase = "paint"
    /\ selected_tool' = kind
    /\ last' = [op |-> "tools_window", phase |-> "tools_window",
                current_tool |-> last.current_tool, tool |-> NoneOpt]
    /\ UNCHANGED <<slotRest, panicked, drawing_tool, panning_tool, editing_tool,
                   selecting_tool, curvature_tool, direct_selecting_tool>>

InitSlots == InitWith(InitDocs, {default_zoom})

NextSlots ==
    \/ \E i \in 1..3 : TakeTool(Phases[i])
    \/ \E i \in 1..3, panics \in BOOLEAN : RunTool(Phases[i], panics)
    \/ \E kind \in AllToolKinds : ToolsWindow(kind)

SpecSlots == InitSlots /\ [][NextSlots]_vars

----------------------------------------------------------------------------
(* The Editing and Direct-Selection tools at work on a chain of two long   *)
(* segments, whose joint, handles and curves can each be picked.           *)

\* two segments of length eight that meet in a corner at (8, 0)
Elbow == Drawn(1, <<<<0, 0>>, <<1, 0>>, <<7, 0>>, <<8, 0>>, <<8, 1>>, <<8, 7>>,
                    <<8, 8>>>>)

\* where the pointer is in a frame of the Editing tool, in world
\* coordinates: on the first segment and next to the joint
EditJointPts == {<<4, 0>>, <<4, 1>>, <<9, 1>>, <<8, 2>>}
\* and in a frame of the Direct-Selection tool: on the first segment and
\* next to the joint and its handle
DirectJointPts == {<<4, 0>>, <<7, 1>>, <<9, 1>>, <<8, 2>>}
JointTools == {"Editing", "DirectSelection"}

InitJoints == InitWith({<<Elbow>>}, {<<16, 1>>})

NextJoints ==
    \/ \E ev \in PointerEvents, world \in EditJointPts : EditingFrame(ev, world)
    \/ \E ev \in PointerEvents, world \in DirectJointPts, shift \in BOOLEAN :
          DirectSelectionFrame(ev, world, shift)
    \/ \E kind \in JointTools : SwitchTool(kind)

SpecJoints == InitJoints /\ [][NextJoints]_vars

----------------------------------------------------------------------------
(* The tools that change the document, driven frame by frame on one        *)
(* document: strokes are drawn and deleted, and points, segments and       *)
(* shapes are dragged, with switches between the tools.                    *)

\* where the pointer is in a frame, in world coordinates: next to an
\* anchor of either shape and to a handle of either shape
StructPts == {<<0, 1>>, <<1, 5>>, <<1, 4>>}
StructEditPts == {<<0, 1>>, <<1, 4>>}
\* inside the bounding box of the first shape
StructMovePts == {<<4, 3>>, <<4, 4>>}
StructDrawPts == {<<4, 4>>}
StructTools == AllToolKinds \ {"Panning"}

InitStruct == InitWith(InitDocs, {<<16, 1>>})

NextStruct ==
    \/ \E ev \in PointerEvents, world \in StructDrawPts, keys \in {0, 1} :
          DrawingFrame(ev, world, keys)
    \/ \E ev \in PointerEvents, world \in StructEditPts : EditingFrame(ev, world)
    \/ \E ev \in PointerEvents, world \in StructMovePts :
          SelectionFrame(ev, world, FALSE)
    \/ \E ev \in PointerEvents, world \in StructEditPts : CurvatureFrame(ev, world)
    \/ \E ev \in PointerEvents, world \in StructPts, shift \in BOOLEAN :
          DirectSelectionFrame(ev, world, shift)
    \/ \E kind \in StructTools : SwitchTool(kind)

SpecStruct == InitStruct /\ [][NextStruct]_vars

----------------------------------------------------------------------------
(* Vocabulary of the properties *)

PointOf(shps, shape_idx, bez_idx, ctrl_idx) ==
    Handle(At(At(shps, shape_idx).beziers, bez_idx), ctrl_idx)

Plus(p, d) == <<p[1] + d[1], p[2] + d[2]>>

\* every control point position of the document
AllSegs(shps) ==
    UNION {{<<s, b>> : b \in Indices(At(shps, s).beziers)} : s \in Indices(shps)}
AllPointIds(shps) == AllSegs(shps) \X (0..3)

SameStructure(a, b) ==
    /\ Len(a) = Len(b)
    /\ \A s \in Indices(a) :
          /\ Len(At(a, s).beziers) = Len(At(b, s).beziers)
          /\ At(a, s).thickness = At(b, s).thickness

\* adjacent segments of every shape share their joint
JointsCoincide(shps) ==
    \A s \in Indices(shps) :
        \A i \in 0..(Len(At(shps, s).beziers) - 2) :
            At(At(shps, s).beziers, i).p3 = At(At(shps, s).beziers, i + 1).p0

\* the query point is within point tolerance of a control point of segment
\* (s, b), resp. within curve tolerance of its curve
PointCandidate(shps, s, b, mouse) ==
    \E c \in 0..3 : DistSq(mouse, PointOf(shps, s, b, c)) <= handle_radius * handle_radius
CurveCandidate(shps, z, s, b, mouse) ==
    CurveWithinTol(At(At(shps, s).beziers, b), mouse, At(shps, s).thickness, z)
Candidate(shps, z, s, b, mouse) ==
    PointCandidate(shps, s, b, mouse) \/ CurveCandidate(shps, z, s, b, mouse)
CandidateSegs(shps, z, mouse) ==
    {t \in AllSegs(shps) : Candidate(shps, z, t[1], t[2], mouse)}
BodyShapes(shps, mouse) ==
    {s \in Indices(shps) :
        /\ bounding_box(At(shps, s)) # NoneOpt
        /\ RectContains(bounding_box(At(shps, s))[1], mouse)}

FreshHit == last.op = "hit_test_all"
Dragged == last.op = "apply_drag"

----------------------------------------------------------------------------
\* C1: starting from documents whose joints coincide, after any sequence of
\* apply_drag calls with hits taken from the document, adjacent segments of
\* every shape still share their joint.
C1_JointContinuity == JointsCoincide(shapes)

\* after two drags on the chain its first joint is somewhere else
C1_Witness ==
    /\ Dragged /\ ndrags >= 2
    /\ held_hit.kind \in {"ControlPoint", "CurveSegment"}
    /\ held_hit.shape_idx = 1
    /\ At(At(shapes, 1).beziers, 0).p3 # At(At(base, 1).beziers, 0).p3

\* C2: when the query point is within point tolerance of a control point of a
\* segment and within curve tolerance of that same segment, hit_test_all does
\* not answer CurveSegment for that segment (the control point wins).
C2_ControlPointPriority ==
    (FreshHit /\ held_hit.kind = "CurveSegment")
        => ~PointCandidate(shapes, held_hit.shape_idx, held_hit.bez_idx, last.mouse)

\* C3: apply_drag with a ControlPoint hit on an anchor puts the anchor at
\* orig_pos + delta and the adjacent handle at its captured position + delta;
\* a neighbouring segment on that side gets the same anchor and its adjacent
\* handle is translated by delta as well.
C3_AnchorDrag ==
    (Dragged /\ held_hit.kind = "ControlPoint" /\ held_hit.ctrl_idx \in {0, 3})
        => LET s == held_hit.shape_idx
               b == held_hit.bez_idx
               d == last.delta
               new_pt == Plus(held_hit.orig_pos, d)
               n == Len(At(shapes, s).beziers)
           IN  IF held_hit.ctrl_idx = 0
               THEN /\ PointOf(shapes, s, b, 0) = new_pt
                    /\ PointOf(shapes, s, b, 1) = Plus(PointOf(base, s, b, 1), d)
                    /\ b > 0 => /\ PointOf(shapes, s, b - 1, 3) = new_pt
                                /\ PointOf(shapes, s, b - 1, 2)
                                     = Plus(PointOf(base, s, b - 1, 2), d)
               ELSE /\ PointOf(shapes, s, b, 3) = new_pt
                    /\ PointOf(shapes, s, b, 2) = Plus(PointOf(base, s, b, 2), d)
                    /\ b + 1 < n => /\ PointOf(shapes, s, b + 1, 0) = new_pt
                                    /\ PointOf(shapes, s, b + 1, 1)
                                         = Plus(PointOf(base, s, b + 1, 1), d)

\* a start anchor that has a previous segment has been dragged
C3_Witness ==
    /\ Dragged
    /\ held_hit.kind = "ControlPoint" /\ held_hit.ctrl_idx = 0 /\ held_hit.bez_idx > 0
    /\ PointOf(shapes, held_hit.shape_idx, held_hit.bez_idx - 1, 3)
         = Plus(held_hit.orig_pos, last.delta)
    /\ PointOf(shapes, held_hit.shape_idx, held_hit.bez_idx - 1, 2)
         # PointOf(base, held_hit.shape_idx, held_hit.bez_idx - 1, 2)

\* C4: apply_drag is baseline-relative: whatever drags were applied with a hit
\* since it was taken, the document is what a single apply_drag of the last
\* delta makes of the document the hit was taken from.
C4_BaselineRelative ==
    Dragged => shapes = apply_drag(base, held_hit, last.delta)

\* an anchor has been dragged twice with the hit taken from the first document
C4_Witness ==
    /\ Dragged /\ ndrags = 2 /\ base \in InitDocs
    /\ held_hit.kind = "ControlPoint" /\ held_hit.ctrl_idx = 3
    /\ held_hit.bez_idx + 1 < Len(At(shapes, held_hit.shape_idx).beziers)

\* C5: after select_shapes_in_rect(rect), selected_shapes is exactly the set
\* of indices of the shapes whose bounding box intersects rect.
C5_ShapesInRect ==
    last.op = "select_shapes_in_rect"
        => selected_shapes = ShapesInRect(shapes, last.rect)

\* C6: every index in selected_shapes names an existing shape and every
\* point in selected_points names an existing segment of an existing shape,
\* whatever the tools did before (delete-last and tool switches included).
C6_SelectionIndicesValid ==
    /\ \A shape_idx \in selected_shapes : InRange(shapes, shape_idx)
    /\ \A pid \in selected_points :
          /\ InRange(shapes, pid.shape_idx)
          /\ InRange(At(shapes, pid.shape_idx).beziers, pid.bezier_idx)

\* C7: when control-point or curve candidates exist, hit_test_all names the
\* highest shape index that has a candidate segment and, within that shape,
\* the lowest candidate segment index.
C7_ScanOrder ==
    (FreshHit /\ CandidateSegs(shapes, zoom, last.mouse) # {})
        => LET cands == CandidateSegs(shapes, zoom, last.mouse)
               top == Max({t[1] : t \in cands})
           IN  /\ held_hit.kind \in {"ControlPoint", "CurveSegment"}
               /\ held_hit.shape_idx = top
               /\ held_hit.bez_idx = Min({t[2] : t \in {u \in cands : u[1] = top}})

\* candidates in both shapes, and in two segments of the topmost one
C7_Witness ==
    /\ FreshHit
    /\ LET cands == CandidateSegs(shapes, zoom, last.mouse)
       IN  /\ \E t \in cands : t[1] = 0
           /\ \E t, u \in cands : t[1] = 1 /\ u[1] = 1 /\ t[2] # u[2]
    /\ held_hit.shape_idx = 1

\* C8: hit_test_all answers ShapeBody only when no control point or curve of
\* any shape matches, and then names the topmost shape whose bounding box
\* contains the point, with that shape's current segments as orig_beziers;
\* it answers None exactly when no point, curve or bounding box matches.
C8_BodyPass ==
    FreshHit
        => LET cands == CandidateSegs(shapes, zoom, last.mouse)
               bodies == BodyShapes(shapes, last.mouse)
           IN  /\ held_hit.kind = "ShapeBody"
                    => /\ cands = {}
                       /\ bodies # {}
                       /\ held_hit.shape_idx = Max(bodies)
                       /\ held_hit.orig_beziers = At(shapes, held_hit.shape_idx).beziers
               /\ held_hit = NoHit <=> (cands = {} /\ bodies = {})

\* a body hit on a document that has been edited
C8_Witness ==
    /\ FreshHit /\ held_hit.kind = "ShapeBody" /\ ndrags > 0
    /\ CandidateSegs(shapes, zoom, last.mouse) = {}

\* C9: apply_drag with a ControlPoint hit on a handle (ctrl_idx 1 or 2) sets
\* that one point to orig_pos + delta and changes no other point of the
\* document.
C9_HandleDragFrame ==
    [][(last'.op = "apply_drag" /\ held_hit.kind = "ControlPoint"
          /\ held_hit.ctrl_idx \in {1, 2})
        => /\ SameStructure(shapes, shapes')
           /\ \A t \in AllPointIds(shapes) :
                PointOf(shapes', t[1][1], t[1][2], t[2])
                  = IF t = <<<<held_hit.shape_idx, held_hit.bez_idx>>, held_hit.ctrl_idx>>
                    THEN Plus(held_hit.orig_pos, last'.delta)
                    ELSE PointOf(shapes, t[1][1], t[1][2], t[2])]_vars

\* a handle of the chain's middle segment has been dragged away
C9_Witness ==
    /\ Dragged
    /\ held_hit.kind = "ControlPoint" /\ held_hit.ctrl_idx \in {1, 2}
    /\ PointOf(shapes, held_hit.shape_idx, held_hit.bez_idx, held_hit.ctrl_idx)
         = Plus(held_hit.orig_pos, last.delta)
    /\ shapes # base

\* C10: apply_drag with a CurveSegment hit sets the segment's four points to
\* orig_p0..orig_p3 + delta, prev.p3 to the new p0 and next.p0 to the new p3
\* when those neighbours exist, and changes no other point of the document.
C10_CurveDragFrame ==
    [][(last'.op = "apply_drag" /\ held_hit.kind = "CurveSegment")
        => LET s == held_hit.shape_idx
               b == held_hit.bez_idx
               d == last'.delta
           IN  /\ SameStructure(shapes, shapes')
               /\ \A t \in AllPointIds(shapes) :
                    PointOf(shapes', t[1][1], t[1][2], t[2])
                      = CASE t[1] = <<s, b>> /\ t[2] = 0 -> Plus(held_hit.orig_p0, d)
                          [] t[1] = <<s, b>> /\ t[2] = 1 -> Plus(held_hit.orig_p1, d)
                          [] t[1] = <<s, b>> /\ t[2] = 2 -> Plus(held_hit.orig_p2, d)
                          [] t[1] = <<s, b>> /\ t[2] = 3 -> Plus(held_hit.orig_p3, d)
                          [] t[1] = <<s, b - 1>> /\ t[2] = 3 -> Plus(held_hit.orig_p0, d)
                          [] t[1] = <<s, b + 1>> /\ t[2] = 0 -> Plus(held_hit.orig_p3, d)
                          [] OTHER -> PointOf(shapes, t[1][1], t[1][2], t[2])]_vars

\* the chain's middle segment, which has both neighbours, has been dragged
C10_Witness ==
    /\ Dragged
    /\ held_hit.kind = "CurveSegment" /\ held_hit.shape_idx = 1 /\ held_hit.bez_idx = 1
    /\ PointOf(shapes, 1, 0, 3) = Plus(held_hit.orig_p0, last.delta)
    /\ PointOf(shapes, 1, 2, 0) = Plus(held_hit.orig_p3, last.delta)
    /\ PointOf(shapes, 1, 0, 2) = PointOf(base, 1, 0, 2)

\* C11: apply_drag with a ShapeBody hit sets every control point of every
\* segment of that shape to its value in orig_beziers plus delta and changes
\* no point of any other shape.
C11_ShapeBodyDrag ==
    [][(last'.op = "apply_drag" /\ held_hit.kind = "ShapeBody")
        => /\ SameStructure(shapes, shapes')
           /\ \A t \in AllPointIds(shapes) :
                PointOf(shapes', t[1][1], t[1][2], t[2])
                  = IF t[1][1] = held_hit.shape_idx
                    THEN Plus(Handle(At(held_hit.orig_beziers, t[1][2]), t[2]),
                              last'.delta)
                    ELSE PointOf(shapes, t[1][1], t[1][2], t[2])]_vars

\* the three-segment chain has been dragged twice with one ShapeBody hit
C11_Witness ==
    /\ Dragged /\ ndrags >= 2
    /\ held_hit.kind = "ShapeBody" /\ held_hit.shape_idx = 1
    /\ Len(held_hit.orig_beziers) = 3
    /\ held_hit.orig_beziers = At(base, 1).beziers
    /\ At(shapes, 1).beziers # At(base, 1).beziers
    /\ base \in InitDocs

\* C12: after select_points_in_rect(rect), selected_points is exactly the
\* set of PointIds of the control points whose position lies inside rect
\* (borders included), whatever was selected before.
C12_PointsInRect ==
    last.op = "select_points_in_rect"
        => selected_points =
             {PointId(t[1][1], t[1][2], t[2]) :
                 t \in {u \in AllPointIds(shapes) :
                          EguiRectContains(last.rect,
                                           PointOf(shapes, u[1][1], u[1][2], u[2]))}}

\* points of two shapes are selected, one of them on the border of the
\* rectangle, and a point selected before lies outside it
C12_Witness ==
    /\ last.op = "select_points_in_rect"
    /\ \E p, q \in selected_points : p.shape_idx # q.shape_idx
    /\ \E p \in selected_points :
          PointOf(shapes, p.shape_idx, p.bezier_idx, p.ctrl_idx)[2] = last.rect.y1
    /\ last.prior_points \ selected_points # {}
    /\ selected_points # {PointId(t[1][1], t[1][2], t[2]) : t \in AllPointIds(shapes)}

C13_WitnessShapes ==
    /\ last.op = "select_shapes_in_rect"
    /\ last.prior_points # {}
    /\ selected_points = last.prior_points

\* C14: select_single_shape(idx) and select_shape_clearing_points(idx) both
\* leave selected_shapes = {idx} and selected_points empty, whatever the
\* selection was before.
C14_SelectSingleShape ==
    last.op \in {"select_single_shape", "select_shape_clearing_points"}
        => selected_shapes = {last.idx} /\ selected_points = {}

\* a shape was selected while another shape and a point were selected
C14_Witness ==
    /\ last.op \in {"select_single_shape", "select_shape_clearing_points"}
    /\ last.prior_points # {}
    /\ last.prior_shapes \ {last.idx} # {}
    /\ selected_shapes = {last.idx}

\* C15: in every reachable state min_zoom <= zoom <= max_zoom, hence zoom
\* is positive and screen_to_world divides by a nonzero number.
C15_ZoomClamped ==
    /\ RLeq(min_zoom, zoom) /\ RLeq(zoom, max_zoom)
    /\ zoom[1] > 0

\* a scroll that would have left the range was clamped at min_zoom, after
\* the zoom had been at max_zoom or reset
C15_Witness ==
    /\ last.op \in {"scroll", "PanningTool"}
    /\ zoom = min_zoom
    /\ ~RLeq(min_zoom, RMul(last.zoom, last.zoom_delta))
    /\ ndrags >= 2

\* C16: one scroll-zoom step leaves screen_to_world(pointer position)
\* unchanged, also when the new zoom is clamped at min_zoom or max_zoom.
C16_ZoomAnchored ==
    (last.op = "scroll" \/ (last.op = "PanningTool" /\ last.scrolled))
        => screen_to_world(pan_offset, zoom, last.pos)
             = screen_to_world(last.pan_offset, last.zoom, last.pos)

\* a scroll away from the origin of a panned view that was clamped at
\* max_zoom and moved pan_offset
C16_Witness ==
    /\ last.op = "scroll"
    /\ zoom = max_zoom /\ last.zoom # max_zoom
    /\ RMul(last.zoom, last.zoom_delta) # max_zoom
    /\ last.pan_offset # RVec(0, 0)
    /\ pan_offset # last.pan_offset
    /\ last.pos # RVec(0, 0)

\* the world points the round trip is taken from
WorldPts == {RVec(0, 0), RVec(3, -2), <<<<7, 2>>, <<-1, 3>>>>}

\* C17: for the pan offset and zoom of every reachable state,
\* world_to_screen(screen_to_world(p)) = p for every screen point p and
\* screen_to_world(world_to_screen(w)) = w for every world point w.
C17_RoundTrip ==
    /\ \A p \in ScreenPts :
          world_to_screen(pan_offset, zoom, screen_to_world(pan_offset, zoom, p)) = p
    /\ \A w \in WorldPts :
          screen_to_world(pan_offset, zoom, world_to_screen(pan_offset, zoom, w)) = w

\* a view with a fractional pan offset and a fractional zoom
C17_Witness ==
    /\ pan_offset[1][2] > 1 /\ pan_offset[2][1] # 0
    /\ zoom[2] > 1
    /\ \E p \in ScreenPts : screen_to_world(pan_offset, zoom, p) # p

\* C18: in the Drawing tool a drag-stop with a non-empty current stroke (and
\* no key pressed in that frame) appends exactly one shape at the end of the
\* list, whose raw_strokes holds that stroke and which has no segment when
\* the stroke has fewer than 2 points; curr_shape becomes a fresh shape with
\* empty current_stroke, raw_strokes and beziers; is_drawing becomes false
C18_DragStopArchives ==
    [][(last'.op = "DrawingTool" /\ last'.ev = "drag_stopped" /\ last'.keys = 0
        /\ Len(curr_shape.current_stroke) # 0)
       => /\ Len(shapes') = Len(shapes) + 1
          /\ SubSeq(shapes', 1, Len(shapes)) = shapes
          /\ shapes'[Len(shapes')].raw_strokes = <<curr_shape.current_stroke>>
          /\ (Len(curr_shape.current_stroke) < 2
                 => Len(shapes'[Len(shapes')].beziers) = 0)
          /\ curr_shape'.current_stroke = <<>>
          /\ curr_shape'.raw_strokes = <<>>
          /\ curr_shape'.beziers = <<>>
          /\ drawing_tool'.is_drawing = FALSE]_vars

\* a one-sample stroke archived with no segment on top of an earlier stroke
\* of several samples, the tool idle again
C18_Witness ==
    /\ last.op = "DrawingTool" /\ last.ev = "drag_stopped" /\ last.keys = 0
    /\ Len(shapes) >= 2
    /\ shapes[Len(shapes)].raw_strokes = <<<<last.mouse>>>>
    /\ shapes[Len(shapes)].beziers = <<>>
    /\ Len(shapes[Len(shapes) - 1].raw_strokes) = 1
    /\ Len(shapes[Len(shapes) - 1].raw_strokes[1]) >= 2
    /\ Len(shapes[Len(shapes) - 1].beziers) >= 1
    /\ ndrags = 2
    /\ curr_shape = ShapeNew(drawing_tool.thickness)
    /\ ~drawing_tool.is_drawing

\* C19: in the Drawing tool, a frame with k Delete / Backspace presses and no
\* drag-stop removes the last k shapes of the list (all of them when there
\* are fewer), whether the tool is idle or a stroke is in progress, and
\* leaves the remaining shapes and their order unchanged; with an empty list
\* it changes nothing
C19_DeletePopsLast ==
    [][(last'.op = "DrawingTool" /\ last'.ev # "drag_stopped" /\ last'.keys > 0)
       => /\ Len(shapes') = Max({0, Len(shapes) - last'.keys})
          /\ shapes' = SubSeq(shapes, 1, Len(shapes'))
          /\ (last'.keys = 1 /\ Len(shapes) > 0 => Len(shapes') = Len(shapes) - 1)
          /\ (Len(shapes) = 0 => shapes' = shapes)]_vars

\* one press in the middle of a stroke removed the last of two or more
\* shapes, and the stroke goes on
C19_Witness ==
    /\ last.op = "DrawingTool" /\ last.ev = "dragged" /\ last.keys = 1
    /\ drawing_tool.is_drawing
    /\ Len(curr_shape.current_stroke) >= 2
    /\ shapes = <<Arch>>

\* a press with nothing to delete
C19_WitnessEmpty ==
    /\ last.op = "DrawingTool" /\ last.keys > 0
    /\ shapes = <<>>
    /\ base = <<>>

\* C20: no Curvature-tool frame (drag-start, drag-continue, drag-stop,
\* click) changes an anchor (p0 or p3) of any segment; a frame changes a
\* point only while the tool holds the hit of its drag-start, which is a
\* control point with ctrl_idx 1 or 2, and then no point other than that
\* handle changes
C20_CurvatureHandlesOnly ==
    [][last'.op = "CurvatureTool"
       => /\ SameStructure(shapes, shapes')
          /\ \A id \in AllPointIds(shapes) :
                id[2] \in {0, 3}
                   => PointOf(shapes', id[1][1], id[1][2], id[2])
                        = PointOf(shapes, id[1][1], id[1][2], id[2])
          /\ shapes' # shapes
               => /\ last'.ev \in {"drag_started", "dragged"}
                  /\ curvature_tool'.active_hit.kind = "ControlPoint"
                  /\ curvature_tool'.active_hit.ctrl_idx \in {1, 2}
                  /\ last'.ev = "dragged" => curvature_tool'.active_hit = curvature_tool.active_hit
                  /\ \A id \in AllPointIds(shapes) :
                        PointOf(shapes', id[1][1], id[1][2], id[2])
                            # PointOf(shapes, id[1][1], id[1][2], id[2])
                        => /\ id[1][1] = curvature_tool'.active_hit.shape_idx
                           /\ id[1][2] = curvature_tool'.active_hit.bez_idx
                           /\ id[2] = curvature_tool'.active_hit.ctrl_idx]_vars

\* a handle held since drag-start has been dragged away from where it was,
\* every anchor still where the document had it
C20_Witness ==
    /\ last.op = "CurvatureTool" /\ last.ev = "dragged"
    /\ curvature_tool.active_hit.kind = "ControlPoint"
    /\ curvature_tool.active_hit.ctrl_idx \in {1, 2}
    /\ PointOf(shapes, curvature_tool.active_hit.shape_idx,
               curvature_tool.active_hit.bez_idx, curvature_tool.active_hit.ctrl_idx)
         # curvature_tool.active_hit.orig_pos
    /\ shapes # base
    /\ \A id \in AllPointIds(base) :
          id[2] \in {0, 3} => PointOf(shapes, id[1][1], id[1][2], id[2])
                                = PointOf(base, id[1][1], id[1][2], id[2])

\* the shape with every point of the snapshot moved by delta
MovedBy(orig_beziers, delta) ==
    [i \in 1..Len(orig_beziers) |->
        CubicBez(Plus(orig_beziers[i].p0, delta), Plus(orig_beziers[i].p1, delta),
                 Plus(orig_beziers[i].p2, delta), Plus(orig_beziers[i].p3, delta))]

\* a Selection-tool frame in which the pointer is down on a whole-shape move
\* whose drag has exceeded the threshold, in this frame or an earlier one
ShapeMoveUnderWay ==
    /\ last'.op = "SelectionTool"
    /\ last'.ev \in {"drag_started", "dragged"}
    /\ selecting_tool'.is_moving_shape
    /\ selecting_tool'.is_dragging

\* C21: in the Selection tool without shift, a drag-start that hits a curve
\* segment selects exactly that shape and holds a snapshot of it; once the
\* drag has exceeded the threshold, after each drag-continue every point of
\* that shape is at its snapshot position plus (current world pointer -
\* drag-start world pointer) and every other shape is unchanged
C21_ShapeMove ==
    [][/\ (last'.op = "SelectionTool" /\ last'.ev = "drag_started"
           /\ selecting_tool'.is_moving_shape)
          => /\ selected_shapes' = {selecting_tool'.active_hit.shape_idx}
             /\ selecting_tool'.active_hit.orig_beziers
                  = At(shapes, selecting_tool'.active_hit.shape_idx).beziers
       /\ ShapeMoveUnderWay
          => \A s \in Indices(shapes) :
                IF s = selecting_tool'.active_hit.shape_idx
                THEN At(shapes', s).beziers
                       = MovedBy(selecting_tool'.active_hit.orig_beziers,
                                 <<last'.mouse[1] - selecting_tool'.drag_start_world[1][1],
                                   last'.mouse[2] - selecting_tool'.drag_start_world[1][2]>>)
                ELSE At(shapes', s) = At(shapes, s)]_vars

\* the same for the frames whose own pointer position is beyond the threshold
C21_ShapeMoveBeyondThreshold ==
    [][(ShapeMoveUnderWay
        /\ PastThreshold(selecting_tool'.drag_start_world[1], last'.mouse, zoom))
          => \A s \in Indices(shapes) :
                IF s = selecting_tool'.active_hit.shape_idx
                THEN At(shapes', s).beziers
                       = MovedBy(selecting_tool'.active_hit.orig_beziers,
                                 <<last'.mouse[1] - selecting_tool'.drag_start_world[1][1],
                                   last'.mouse[2] - selecting_tool'.drag_start_world[1][2]>>)
                ELSE At(shapes', s) = At(shapes, s)]_vars

\* a Selection-tool drag-continue frame
SelectionDragContinue == last'.op = "SelectionTool" /\ last'.ev = "dragged"

\* the part of C22 about drags within the threshold
C22_BelowThresholdInert ==
    [][(SelectionDragContinue
        /\ ~PastThreshold(selecting_tool.drag_start_world[1], last'.mouse, zoom))
          => /\ selected_shapes' = selected_shapes
             /\ selected_points' = selected_points
             /\ shapes' = shapes]_vars

\* C22: in the Selection tool a drag-continue whose world distance from the
\* drag-start point does not exceed DRAG_THRESHOLD / zoom changes neither
\* the selection nor any geometry; a drag-continue of a marquee drag beyond
\* the threshold sets selected_shapes to the shapes whose bounding box
\* intersects the rectangle from the drag-start point to the pointer
C22_ThresholdAndMarquee ==
    [][SelectionDragContinue
       => IF ~PastThreshold(selecting_tool.drag_start_world[1], last'.mouse, zoom)
          THEN /\ selected_shapes' = selected_shapes
               /\ selected_points' = selected_points
               /\ shapes' = shapes
          ELSE ~selecting_tool.is_moving_shape
                  => selected_shapes'
                       = ShapesInRect(shapes,
                            RectFromTwoPos(selecting_tool.drag_start_world[1],
                                           last'.mouse))]_vars

\* a Direct-Selection frame of the given pointer event
DirectEvent(ev) == last'.op = "DirectSelectionTool" /\ last'.ev = ev

\* the world distance of the pointer from the drag-start point is below the
\* threshold, whether or not the threshold is divided by zoom
DirectBelowThreshold ==
    /\ DistSq(direct_selecting_tool.drag_start_world[1], last'.mouse)
          < DRAG_THRESHOLD * DRAG_THRESHOLD
    /\ ~PastThreshold(direct_selecting_tool.drag_start_world[1], last'.mouse, zoom)

\* C23: in the Direct-Selection tool a drag-continue whose distance from the
\* drag-start point is below the drag threshold changes neither a point
\* position nor the point selection
C23_DirectBelowThresholdInert ==
    [][(DirectEvent("dragged") /\ DirectBelowThreshold)
          => /\ shapes' = shapes
             /\ selected_points' = selected_points]_vars

\* the positions the points recorded at drag-start must have after a move by
\* the pointer's offset from the drag-start point
AtOriginPlusDelta(shps, origins, start, cur) ==
    \A i \in 1..Len(origins) :
        get_point_position(shps, origins[i][1])
            = Some(<<origins[i][2][1] + cur[1] - start[1],
                     origins[i][2][2] + cur[2] - start[2]>>)

\* C24: in a Direct-Selection drag of the selected points, after every
\* drag-continue that applies the move each point selected at drag-start is
\* at its drag-start position plus (current world pointer - drag-start world
\* pointer), whatever the combination of selected points
C24_MultiPointMove ==
    [][(/\ DirectEvent("dragged")
        /\ ~direct_selecting_tool.is_marquee
        /\ DirectWithinThreshold(direct_selecting_tool.drag_start_world[1], last'.mouse))
          => AtOriginPlusDelta(shapes', direct_selecting_tool.dragged_point_origins,
                               direct_selecting_tool.drag_start_world[1], last'.mouse)]_vars

\* the points recorded in dragged_point_origins
OriginPoints(origins) == {origins[i][1] : i \in 1..Len(origins)}

\* C25: in the Direct-Selection tool with shift held, a drag-start on a
\* selected control point removes it from selected_points, makes the
\* gesture a marquee and moves no point; a drag-start on an unselected
\* control point adds it to selected_points, keeps the points selected
\* before and makes the gesture a drag of every selected point
C25_ShiftDragStart ==
    [][(/\ DirectEvent("drag_started") /\ last'.shift
        /\ hit_test_all(shapes, zoom, last'.mouse).kind = "ControlPoint")
          => LET hit == hit_test_all(shapes, zoom, last'.mouse)
                 pid == PointId(hit.shape_idx, hit.bez_idx, hit.ctrl_idx)
             IN  IF pid \in selected_points
                 THEN /\ pid \notin selected_points'
                      /\ direct_selecting_tool'.is_marquee
                      /\ direct_selecting_tool'.dragged_point_origins = <<>>
                      /\ shapes' = shapes
                 ELSE /\ selected_points' = selected_points \cup {pid}
                      /\ ~direct_selecting_tool'.is_marquee
                      /\ OriginPoints(direct_selecting_tool'.dragged_point_origins)
                           = selected_points'
                      /\ shapes' = shapes]_vars

\* the part of C25 about an unselected control point
C25_ShiftAdds ==
    [][(/\ DirectEvent("drag_started") /\ last'.shift
        /\ hit_test_all(shapes, zoom, last'.mouse).kind = "ControlPoint"
        /\ LET hit == hit_test_all(shapes, zoom, last'.mouse)
           IN  PointId(hit.shape_idx, hit.bez_idx, hit.ctrl_idx) \notin selected_points)
          => LET hit == hit_test_all(shapes, zoom, last'.mouse)
                 pid == PointId(hit.shape_idx, hit.bez_idx, hit.ctrl_idx)
             IN  /\ selected_points' = selected_points \cup {pid}
                 /\ ~direct_selecting_tool'.is_marquee
                 /\ OriginPoints(direct_selecting_tool'.dragged_point_origins)
                      = selected_points'
                 /\ shapes' = shapes]_vars

\* C26: in the Selection tool, the drag-stop of a gesture that never exceeded
\* the threshold and whose drag-start hit no curve (the hit test at the
\* drag-start point answers no CurveSegment and the tool holds no hit) leaves
\* selected_shapes and selected_points both empty
C26_ClickOnEmptyDeselects ==
    [][(/\ last'.op = "SelectionTool" /\ last'.ev = "drag_stopped"
        /\ ~selecting_tool.is_dragging
        /\ selecting_tool.active_hit = NoHit
        /\ hit_test_all(shapes, zoom, selecting_tool.drag_start_world[1]).kind
              # "CurveSegment")
          => /\ selected_shapes' = {}
             /\ selected_points' = {}]_vars

\* the part of C26 about selected_shapes
C26_ClickOnEmptyClearsShapes ==
    [][(/\ last'.op = "SelectionTool" /\ last'.ev = "drag_stopped"
        /\ ~selecting_tool.is_dragging
        /\ selecting_tool.active_hit = NoHit)
          => selected_shapes' = {}]_vars

\* a frame of the Panning tool was just run with this pointer event
PanningEvent(ev) ==
    /\ ndrags' # ndrags
    /\ last'.op = "PanningTool"
    /\ last'.ev = ev

\* the pointer's offset from q to p, added to the offset o
PanBy(o, p, q) == <<RAdd(o[1], RSub(p[1], q[1])), RAdd(o[2], RSub(p[2], q[2]))>>

\* C27: the drag-start frame of the Panning tool captures the pan_offset it
\* leaves and the pointer position; every drag-continue frame leaves
\* pan_offset at the captured offset plus (current pointer - drag-start
\* pointer), whatever the zoom and the positions of the frames in between,
\* keeps what was captured, and changes neither zoom nor zoom_percent.
C27_PanDrag ==
    [][ /\ PanningEvent("drag_started")
            => /\ panning_tool'.drag_start = Some(last'.pos)
               /\ panning_tool'.orig_pan = pan_offset'
               /\ panning_tool'.is_panning
        /\ PanningEvent("dragged")
            => /\ panning_tool.drag_start # NoneOpt
               /\ pan_offset' = PanBy(panning_tool.orig_pan, last'.pos,
                                      panning_tool.drag_start[1])
               /\ panning_tool' = panning_tool
               /\ zoom' = zoom
               /\ zoom_percent' = zoom_percent ]_vars

\* the second drag-continue of a pan that began in a frame that also zoomed:
\* the view is zoomed, the pointer is away from where the drag began and
\* from where it was in the frame before, and the wheel is turning
C27_Witness ==
    /\ last.op = "PanningTool" /\ last.ev = "dragged"
    /\ ndrags = MaxViewSteps
    /\ panning_tool.is_panning
    /\ zoom # default_zoom
    /\ last.zoom_delta # NoScroll
    /\ pan_offset # last.pan_offset
    /\ pan_offset # panning_tool.orig_pan
    /\ last.pan_offset # panning_tool.orig_pan

\* C28: a frame of the Panning tool in which the wheel turns while a pan is
\* in progress leaves zoom and zoom_percent alone and pan_offset where the
\* same frame without the wheel leaves it; with no pan in progress the frame
\* multiplies zoom by the step and clamps it, and a frame with no drag event
\* leaves pan_offset where the zoom step puts it.
C28_ScrollWhilePanning ==
    [][ (ndrags' # ndrags /\ last'.op = "PanningTool" /\ last'.zoom_delta # NoScroll)
            => IF panning_tool.is_panning
               THEN /\ zoom' = zoom
                    /\ zoom_percent' = zoom_percent
                    /\ pan_offset' =
                         IF last'.ev = "dragged"
                         THEN PanBy(panning_tool.orig_pan, last'.pos,
                                    panning_tool.drag_start[1])
                         ELSE pan_offset
               ELSE /\ zoom' = RClamp(RMul(zoom, last'.zoom_delta), min_zoom, max_zoom)
                    /\ zoom_percent' = calc_zoom_level(zoom')
                    /\ last'.ev = "hover"
                         => pan_offset' = ScrollZoom(pan_offset, zoom, last'.pos,
                                                     last'.zoom_delta).pan_offset ]_vars

\* the wheel turned in the frame that ended a pan which had moved the view,
\* and in an earlier frame of the same behaviour it had zoomed the view
C28_Witness ==
    /\ last.op = "PanningTool" /\ last.ev = "drag_stopped"
    /\ last.zoom_delta # NoScroll
    /\ ~panning_tool.is_panning
    /\ zoom = last.zoom /\ zoom # default_zoom
    /\ pan_offset = last.pan_offset


\* the operations that hand a pointer event to a tool
ToolOps == {"DrawingTool", "PanningTool", "EditingTool", "SelectionTool",
            "CurvatureTool", "DirectSelectionTool"}

\* the per-gesture fields of every tool have the values the tool's
\* constructor gives them
AllToolsIdle ==
    /\ selecting_tool = SelectionToolNew
    /\ direct_selecting_tool = DirectSelectionToolNew
    /\ curvature_tool = CurvatureToolNew
    /\ editing_tool.drag_start = NoneOpt
    /\ editing_tool.active_drag = NoDrag
    /\ panning_tool.drag_start = NoneOpt
    /\ ~panning_tool.is_panning
    /\ ~drawing_tool.is_drawing

FitOf(raw, tol) == IF Len(raw) < 2 THEN <<>> ELSE simplify(raw, tol)

\* the fits of the strokes, concatenated in the order of the strokes
RECURSIVE ConcatFits(_, _)
ConcatFits(strokes, tol) ==
    IF Len(strokes) = 0 THEN <<>>
    ELSE ConcatFits(SubSeq(strokes, 1, Len(strokes) - 1), tol)
           \o FitOf(strokes[Len(strokes)], tol)

\* C30: after refit_all_strokes(tol) the shape's beziers are the fits of its
\* raw strokes at tol, concatenated in raw_strokes order, whatever they were
\* before; raw_strokes, thickness and current_stroke are as before; and a
\* second refit_all_strokes(tol) leaves the shape as the first left it.
C30_Refit ==
    last.op = "refit_all_strokes"
        => LET before == last.before
               after == At(shapes, last.shape_idx)
           IN  /\ after.beziers = ConcatFits(before.raw_strokes, last.tol)
               /\ after.raw_strokes = before.raw_strokes
               /\ after.thickness = before.thickness
               /\ after.current_stroke = before.current_stroke
               /\ refit_all_strokes(after, last.tol) = after

\* a shape of three raw strokes, one of them a single sample, whose segments
\* had been moved by the Editing tool, was refitted at a tolerance other
\* than the one it was drawn with, into a different number of segments
C30_Witness ==
    /\ last.op = "refit_all_strokes"
    /\ Len(last.before.raw_strokes) = 3
    /\ last.tol # bezier_tolerance
    /\ last.before.beziers # ConcatFits(last.before.raw_strokes, bezier_tolerance)
    /\ \A tol \in FitTols : last.before.beziers # ConcatFits(last.before.raw_strokes, tol)
    /\ Len(At(shapes, last.shape_idx).beziers) # Len(last.before.beziers)

\* the hit names a shape, or a segment of its shape, that the document
\* does not have
StaleHit(shps, hit) ==
    /\ hit.kind # "None"
    /\ \/ ~InRange(shps, hit.shape_idx)
       \/ /\ hit.kind \in {"ControlPoint", "CurveSegment"}
          /\ ~InRange(At(shps, hit.shape_idx).beziers, hit.bez_idx)

\* the PointId names a shape, or a segment of its shape, that the document
\* does not have
StalePointId(shps, pid) ==
    \/ ~InRange(shps, pid.shape_idx)
    \/ ~InRange(At(shps, pid.shape_idx).beziers, pid.bezier_idx)

\* C31: a call of apply_drag with a hit whose shape or segment index is out
\* of range, and a call of move_point_to with such a PointId, aborts the
\* process; it never returns with the document unchanged.
C31_OutOfRangeIsFatal ==
    [][ /\ (ndrags' # ndrags /\ last'.op = "apply_drag" /\ StaleHit(shapes, held_hit))
            => panicked'
        /\ (ndrags' # ndrags /\ last'.op = "move_point_to"
              /\ StalePointId(shapes, last'.pid))
            => panicked' ]_vars

\* apply_drag alone: a stale hit aborts the process
C31_ApplyDragFatal ==
    [][ (ndrags' # ndrags /\ last'.op = "apply_drag" /\ StaleHit(shapes, held_hit))
            => panicked' ]_vars

\* move_point_to alone: a stale PointId aborts the process
C31_MovePointFatal ==
    [][ (ndrags' # ndrags /\ last'.op = "move_point_to"
           /\ StalePointId(shapes, last'.pid))
            => panicked' ]_vars

\* the tool kinds whose slot is empty
EmptySlots == {kind \in AllToolKinds : Slots[kind] = NoneOpt}

\* C32: no take finds its slot empty; when a frame begins, and after every
\* put, all six slots hold a tool; while a tool is taken (or its method
\* has panicked) the one empty slot is that tool's, and when it was taken it
\* was the selected tool.
C32_ToolSlots ==
    /\ last.op # "expect_failed"
    /\ last.op \in {"init", "put", "tools_window"} => EmptySlots = {}
    /\ last.op \in {"take", "panic"} => EmptySlots = {last.current_tool}
    /\ last.op = "take" => last.current_tool = selected_tool

\* in a later frame, after the tools window switched to the Editing tool
\* and its tool_ui changed move_mode, the Editing tool is out of its slot
\* for tool_ui in a frame that began with another tool
C32_Witness ==
    /\ last.op = "take" /\ last.phase = "tool_ui"
    /\ selected_tool = "Editing"
    /\ editing_tool = NoneOpt
    /\ last.tool.move_mode = "MoveControlPoints"
    /\ drawing_tool # NoneOpt

\* C33: in every state reached by drags of the Editing tool (control point
\* or curve segment) and of the Direct-Selection tool (one or several
\* selected points) from a document whose joints coincide, every two
\* adjacent segments of every shape share their joint: p3 of one is p0 of
\* the next.
C33_JointsAfterToolDrags == JointsCoincide(shapes)

\* the Editing tool has moved the joint after the Direct-Selection tool had
\* moved it as part of a selection of three points
C33_Witness ==
    /\ last.op = "EditingTool" /\ last.ev = "dragged"
    /\ editing_tool.active_drag.kind = "ControlPoint"
    /\ editing_tool.active_drag.ctrl_idx = 3
    /\ Cardinality(selected_points) = 3
    /\ Len(direct_selecting_tool.dragged_point_origins) = 0
    /\ ndrags >= 2
    /\ PointOf(shapes, 0, 0, 3) # PointOf(base, 0, 0, 3)
    /\ PointOf(shapes, 0, 0, 3) # editing_tool.active_drag.orig_pos
    /\ editing_tool.active_drag.orig_pos # PointOf(base, 0, 0, 3)

\* an Editing-tool frame that has just applied a drag of an anchor
EditingAnchorDragged ==
    /\ last'.op = "EditingTool" /\ last'.ev \in {"drag_started", "dragged"}
    /\ ~panicked'
    /\ editing_tool'.drag_start # NoneOpt
    /\ editing_tool'.active_drag.kind = "ControlPoint"
    /\ editing_tool'.active_drag.ctrl_idx \in {0, 3}

\* C34: an Editing-tool drag of an anchor by delta applies the Edit
\* Engine's anchor rule: the anchor goes to orig_pos + delta, the handle of
\* its own segment next to it is translated along with it, and so are the
\* coincident anchor and the adjacent handle of the neighbouring segment
C34_EditingAnchorRule ==
    [][EditingAnchorDragged =>
         LET drag == editing_tool'.active_drag
             start == editing_tool'.drag_start[1]
             delta == <<last'.mouse[1] - start[1], last'.mouse[2] - start[2]>>
         IN  At(shapes', drag.shape_idx).beziers =
                 DragControlPoint(At(shapes, drag.shape_idx).beziers, drag.bez_idx,
                                  drag.ctrl_idx, drag.orig_pos, delta)]_vars

\* what does hold of C34's drag: the anchor and the neighbour's coincident
\* anchor go to orig_pos + delta, and nothing else of the shape moves
C34_EditingAnchorAlone ==
    [][EditingAnchorDragged =>
         LET drag == editing_tool'.active_drag
             start == editing_tool'.drag_start[1]
             new_pt == <<drag.orig_pos[1] + last'.mouse[1] - start[1],
                         drag.orig_pos[2] + last'.mouse[2] - start[2]>>
             nbr == IF drag.ctrl_idx = 0 THEN <<drag.bez_idx - 1, 3>>
                    ELSE <<drag.bez_idx + 1, 0>>
         IN  \A seg \in Indices(At(shapes', drag.shape_idx).beziers), c \in 0..3 :
                 PointOf(shapes', drag.shape_idx, seg, c) =
                     IF <<seg, c>> \in {<<drag.bez_idx, drag.ctrl_idx>>, nbr}
                     THEN new_pt
                     ELSE PointOf(shapes, drag.shape_idx, seg, c)]_vars

\* C35: the drag target the Editing tool resolves at drag-start is the
\* one hit_test_all resolves for the same world point: for a point or curve
\* hit the same kind, shape and segment, and for a body hit or no hit no
\* drag target
C35_EditingTargetIsHitTest ==
    (last.op = "EditingTool" /\ last.ev = "drag_started" /\ ~panicked) =>
        LET hit == hit_test_all(shapes, zoom, last.mouse)
            drag == editing_tool.active_drag
        IN  IF hit.kind \in {"ControlPoint", "CurveSegment"}
            THEN /\ drag.kind = hit.kind
                 /\ drag.shape_idx = hit.shape_idx
                 /\ drag.bez_idx = hit.bez_idx
            ELSE drag = NoDrag

\* C36: shape selection and point selection are mutually exclusive:
\* selected_shapes and selected_points are never both non-empty
C36_SelectionsExclusive == selected_shapes = {} \/ selected_points = {}

\* the Tolerance slider of the Drawing tool has just been moved
ToleranceChanged == drawing_tool'.bezier_tolerance # drawing_tool.bezier_tolerance

\* C37: whenever the tolerance setting is changed, every shape of the
\* document is re-fit: after the change each shape's beziers are the fit of
\* its raw strokes at the new tolerance
C37_ToleranceRefits ==
    [][ToleranceChanged =>
         \A i \in 1..Len(shapes') :
             shapes'[i].beziers =
                 ConcatFits(shapes'[i].raw_strokes, drawing_tool'.bezier_tolerance)]_vars

\* what does hold of C37's change: the document stays as it is, and the
\* next stroke is fitted at the new tolerance
C37_ToleranceLeavesShapes == [][ToleranceChanged => shapes' = shapes]_vars

\* r <= radius / z, for the world distance r from mouse to pt
WithinRadiusAt(pt, mouse, z) ==
    DistSq(mouse, pt) * z[1] * z[1] <= handle_radius * handle_radius * z[2] * z[2]

\* the control points of the document that lie within radius / z of mouse
PointsWithin(mouse, z) ==
    {pid \in AllPointIds(shapes) :
        WithinRadiusAt(PointOf(shapes, pid[1][1], pid[1][2], pid[2]), mouse, z)}

\* what hit_test_all answers when its control-point tolerance is
\* radius / z: a ControlPoint hit lies within the tolerance of the query
\* point, and a query point within the tolerance of some control point is
\* answered with a point or curve hit
PointTolIs(z) ==
    last.op = "hit_test_all" =>
        /\ held_hit.kind = "ControlPoint" =>
               WithinRadiusAt(held_hit.orig_pos, last.mouse, z)
        /\ PointsWithin(last.mouse, z) # {} =>
               held_hit.kind \in {"ControlPoint", "CurveSegment"}

\* C38: the control-point tolerance of hit_test_all is the handle radius
\* divided by the current zoom, so that a query point at world distance r
\* from a control point is a ControlPoint candidate iff r <= radius / zoom
C38_PointTolScalesWithZoom == PointTolIs(zoom)

\* C38, amended: the control-point tolerance of hit_test_all is the handle
\* radius in world units at every zoom: a query point at world distance r
\* from a control point is a ControlPoint candidate iff r <= radius
C38_PointTolInWorldUnits == PointTolIs(default_zoom)

\* a ControlPoint hit, zoomed in, further than radius / zoom from the query
\* point
C38_Witness ==
    /\ last.op = "hit_test_all"
    /\ zoom = max_zoom
    /\ held_hit.kind = "ControlPoint"
    /\ ~WithinRadiusAt(held_hit.orig_pos, last.mouse, zoom)
    /\ WithinRadiusAt(held_hit.orig_pos, last.mouse, default_zoom)

\* the shapes of which some control point differs between a and b, two
\* documents of the same structure
ChangedShapes(a, b) == {s \in Indices(a) : At(a, s).beziers # At(b, s).beziers}

\* the shape a hit or drag target names
TargetOf(hit) == IF hit.kind = "None" THEN {} ELSE {hit.shape_idx}

\* the shape the operation of this step is aimed at: the hit handed to
\* apply_drag, the PointId handed to move_point_to, the target a tool
\* resolved at drag-start
TargetedShapes ==
    CASE last'.op = "apply_drag" -> TargetOf(held_hit)
      [] last'.op = "move_point_to" -> {last'.pid.shape_idx}
      [] last'.op = "EditingTool" -> TargetOf(editing_tool'.active_drag)
      [] last'.op = "SelectionTool" ->
           TargetOf(selecting_tool.active_hit) \cup TargetOf(selecting_tool'.active_hit)
      [] last'.op = "CurvatureTool" ->
           TargetOf(curvature_tool.active_hit) \cup TargetOf(curvature_tool'.active_hit)
      [] last'.op = "DirectSelectionTool" ->
           TargetOf(direct_selecting_tool'.active_hit)
      [] OTHER -> {}

\* a frame of the Drawing tool that ends a stroke, or that reads a Delete
\* key
DrawingArchives == last'.op = "DrawingTool" /\ last'.ev = "drag_stopped"
DrawingDeletes ==
    /\ last'.op = "DrawingTool"
    /\ IF last'.ev = "key_delete" THEN TRUE ELSE last'.keys > 0

\* the shape list grows only by a Drawing drag-stop, by one shape put at
\* its end, and shrinks only by delete-last; every other step leaves the
\* number of shapes and of the segments of every shape as they are
StructureKept ==
    /\ Len(shapes') > Len(shapes) =>
           DrawingArchives /\ SubSeq(shapes', 1, Len(shapes)) = shapes
                           /\ Len(shapes') = Len(shapes) + 1
    /\ Len(shapes') < Len(shapes) =>
           DrawingDeletes /\ shapes' = SubSeq(shapes, 1, Len(shapes'))
    /\ Len(shapes') = Len(shapes) => SameStructure(shapes, shapes')

\* C39: no edit operation changes the structure of the document, and
\* each modifies control points only inside the single shape it is aimed at
C39_EditsKeepStructure ==
    [][/\ StructureKept
       /\ Len(shapes') = Len(shapes) =>
              /\ ChangedShapes(shapes, shapes') \subseteq TargetedShapes
              /\ Cardinality(ChangedShapes(shapes, shapes')) <= 1]_vars

\* C39, amended: no edit operation changes the structure of the document;
\* each modifies control points only inside the shape it is aimed at, but
\* for a Direct-Selection drag, which moves every selected point and so
\* modifies the shapes the selected points belong to
C39_EditsKeepStructureOfTargets ==
    [][/\ StructureKept
       /\ Len(shapes') = Len(shapes) =>
              IF last'.op = "DirectSelectionTool"
              THEN ChangedShapes(shapes, shapes')
                     \subseteq {pid.shape_idx : pid \in selected_points'}
              ELSE /\ ChangedShapes(shapes, shapes') \subseteq TargetedShapes
                   /\ Cardinality(ChangedShapes(shapes, shapes')) <= 1]_vars

\* an Editing-tool drag moves a point after a Direct-Selection drag has
\* moved points of both shapes and a stroke has been archived
C39_Witness ==
    /\ last.op = "EditingTool" /\ last.ev = "dragged"
    /\ editing_tool.active_drag.kind = "ControlPoint"
    /\ ndrags = MaxDrags
    /\ Len(shapes) = Len(base) + 1
    /\ Cardinality(selected_points) = 2
    /\ ChangedShapes(base, SubSeq(shapes, 1, Len(base))) = {0, 1}

\* C40: the displayed zoom_percent is consistent with zoom in every
\* reachable state: zoom_percent = (zoom - min_zoom) / (max_zoom - min_zoom)
\* * 100, after scroll-zoom in any tool and after Reset Transformation
C40_ZoomPercentConsistent == zoom_percent = calc_zoom_level(zoom)

\* what does hold of C40's operations: every scroll stores the percentage
\* of the zoom it sets
C40_ScrollStoresPercent ==
    [][last'.op \in {"scroll", "PanningTool"} => zoom' = zoom \/
          zoom_percent' = calc_zoom_level(zoom')]_vars

====
